---------------------------- MODULE Spec2Model ----------------------------
(***************************************************************************)
(* Trust & Responsibility Propagation Engine of universal-token:           *)
(*   - sponsor-graph connectedness   (social/math/connectedness.ts)         *)
(*   - safety tiers with decay       (social/math/safety_tiers.ts)          *)
(*   - credit flow                   (social/credit_system/math/credit_flow.ts) *)
(*   - credit API handlers           (social/credit_system/api/credit_endpoints.ts) *)
(*                                                                         *)
(* JavaScript numbers are modelled as exact rationals [n |-> , d |-> ] in  *)
(* lowest terms with d > 0, so that sums, products and comparisons are     *)
(* exact.  Infinity (shortestPath of an empty path set) is the string      *)
(* "Infinity".                                                             *)
(***************************************************************************)
EXTENDS Integers, Sequences, FiniteSets, TLC

VARIABLES
    sponsorGraph,   \* Map<string, string[]>: HER -> set of neighbours
    query,          \* arguments of the last connectedness call
    result,         \* ConnectednessResult of the last call on the current graph
    safetyOpts,     \* the SafetyTierOptions in force
    clock,          \* Date.now(), in hours
    issues,         \* the SafetyTierResults a caller keeps about one subject
    returned,       \* the last safety-tier call and the result it returned
    creditCall,     \* the last call of a pure credit function and its value
    ledger,         \* the CreditBalance a caller keeps for the participant
    storage,        \* what the API handlers have handed to the data layer
    response,       \* the last credit API request and its response
    contractStore,  \* the cross-branch contract the data layer holds
    handlers        \* the contract requests in flight and their progress

(***************************************************************************)
(* Rational arithmetic (the `number` type)                                 *)
(***************************************************************************)
Abs(x) == IF x < 0 THEN -x ELSE x

RECURSIVE GCD(_, _)
GCD(a, b) == IF b = 0 THEN a ELSE GCD(b, a % b)

R(num, den) ==
    LET s == IF den < 0 THEN -1 ELSE 1
        g == GCD(Abs(num), Abs(den))
    IN  [n |-> (s * num) \div g, d |-> (s * den) \div g]

Zero == R(0, 1)
One == R(1, 1)

\* x and y over their least common denominator
OverCommon(x, y) ==
    LET g == GCD(x.d, y.d)
    IN  [xn |-> x.n * (y.d \div g), yn |-> y.n * (x.d \div g),
         d |-> x.d * (y.d \div g)]
RAdd(x, y) == LET c == OverCommon(x, y) IN R(c.xn + c.yn, c.d)
RSub(x, y) == LET c == OverCommon(x, y) IN R(c.xn - c.yn, c.d)
RMul(x, y) == R(x.n * y.n, x.d * y.d)
RDiv(x, y) == R(x.n * y.d, x.d * y.n)
RLe(x, y) == LET c == OverCommon(x, y) IN c.xn <= c.yn
RLt(x, y) == LET c == OverCommon(x, y) IN c.xn < c.yn
RGe(x, y) == RLe(y, x)
RMin(x, y) == IF RLe(x, y) THEN x ELSE y
RMax(x, y) == IF RLe(x, y) THEN y ELSE x
Clamp01(x) == RMax(Zero, RMin(One, x))

RECURSIVE RPow(_, _)
RPow(x, k) == IF k = 0 THEN One ELSE RMul(x, RPow(x, k - 1))

RECURSIVE RSum(_)
RSum(seq) == IF seq = <<>> THEN Zero ELSE RAdd(Head(seq), RSum(Tail(seq)))

Range(seq) == {seq[i] : i \in 1..Len(seq)}

\* Some enumeration of a finite set as a sequence (the order is immaterial
\* wherever it is used: sums and maxima).
RECURSIVE SetToSeq(_)
SetToSeq(S) ==
    IF S = {} THEN <<>>
    ELSE LET x == CHOOSE y \in S : TRUE IN <<x>> \o SetToSeq(S \ {x})

(***************************************************************************)
(* Connectedness (connectedness.ts)                                        *)
(***************************************************************************)
HERs == {"a", "b", "c", "d"}

DefaultMaxDepth == 6
DefaultDecayFactor == R(1, 3)

\* Largest explicit options.maxDepth tried besides the default.
MaxDepthOpt == 2
MaxDepths == (0..MaxDepthOpt) \cup {DefaultMaxDepth}
DecayFactors == {DefaultDecayFactor, One}
\* Every labelled graph over HERs is reached, so asking from one fixed
\* source covers every (source, target) pair up to renaming.
QuerySources == {"a"}

\* function dfs(current, path, depth) with its closure state st =
\* [paths, visited]: `visited` is one mutable Set shared by all branches of
\* the search, added to before the neighbour loop and deleted from after it.
RECURSIVE Dfs(_, _, _, _, _, _, _), DfsNeighbors(_, _, _, _, _, _, _)
Dfs(graph, target, maxDepth, current, path, depth, st) ==
    IF depth > maxDepth THEN st
    ELSE IF current \in st.visited /\ current # target THEN st
    ELSE IF current = target /\ Len(path) > 1
         THEN [st EXCEPT !.paths = @ \cup {path}]
    ELSE LET st1 == [st EXCEPT !.visited = @ \cup {current}]
             st2 == DfsNeighbors(graph, target, maxDepth, graph[current],
                                 path, depth, st1)
         IN  [st2 EXCEPT !.visited = @ \ {current}]

DfsNeighbors(graph, target, maxDepth, todo, path, depth, st) ==
    IF todo = {} THEN st
    ELSE LET neighbor == CHOOSE x \in todo : TRUE
             st1 == IF neighbor \notin Range(path)
                    THEN Dfs(graph, target, maxDepth, neighbor,
                             Append(path, neighbor), depth + 1, st)
                    ELSE st
         IN  DfsNeighbors(graph, target, maxDepth, todo \ {neighbor},
                          path, depth, st1)

\* The search whose visited set is never unwound: a node once expanded is
\* not expanded again on any other branch.
RECURSIVE DfsKept(_, _, _, _, _, _, _), DfsKeptNeighbors(_, _, _, _, _, _, _)
DfsKept(graph, target, maxDepth, current, path, depth, st) ==
    IF depth > maxDepth THEN st
    ELSE IF current \in st.visited /\ current # target THEN st
    ELSE IF current = target /\ Len(path) > 1
         THEN [st EXCEPT !.paths = @ \cup {path}]
    ELSE DfsKeptNeighbors(graph, target, maxDepth, graph[current], path,
                          depth, [st EXCEPT !.visited = @ \cup {current}])

DfsKeptNeighbors(graph, target, maxDepth, todo, path, depth, st) ==
    IF todo = {} THEN st
    ELSE LET neighbor == CHOOSE x \in todo : TRUE
             st1 == IF neighbor \notin Range(path)
                    THEN DfsKept(graph, target, maxDepth, neighbor,
                                 Append(path, neighbor), depth + 1, st)
                    ELSE st
         IN  DfsKeptNeighbors(graph, target, maxDepth, todo \ {neighbor},
                              path, depth, st1)

findWeightedPaths_VisitedKept(source, target, graph, maxDepth) ==
    DfsKept(graph, target, maxDepth, source, <<source>>, 0,
            [paths |-> {}, visited |-> {}]).paths

\* The depth cut-off taken one level too late.
findWeightedPaths_OneTooDeep(source, target, graph, maxDepth) ==
    Dfs(graph, target, maxDepth + 1, source, <<source>>, 0,
        [paths |-> {}, visited |-> {}]).paths

\* findWeightedPaths: the de-duplicated paths (a set; the final sort by
\* length does not affect any value computed from them).
findWeightedPaths(source, target, graph, maxDepth) ==
    Dfs(graph, target, maxDepth, source, <<source>>, 0,
        [paths |-> {}, visited |-> {}]).paths

PathWeight(path, decayFactor) == RPow(decayFactor, Len(path) - 1)

Interior(path) == {path[i] : i \in 2..(Len(path) - 1)}

MaxInt(x, y) == IF x >= y THEN x ELSE y
MinInt(x, y) == IF x <= y THEN x ELSE y

\* One unordered pair's overlap term.  In the code pathA is the earlier path
\* and its interior nodes are looked up in pathB; paths being simple, the
\* count is that of the common interior nodes, whichever path comes first.
PairOverlap(pathA, pathB) ==
    R(Cardinality({x \in Interior(pathA) : x \in Range(pathB)}),
      MaxInt(Len(pathA), Len(pathB)))

calculatePathDiversity(paths) ==
    IF Cardinality(paths) <= 1 THEN One
    ELSE LET pairs == {pr \in SUBSET paths : Cardinality(pr) = 2}
             term(pr) == LET pa == CHOOSE x \in pr : TRUE
                             pb == CHOOSE y \in pr : y # pa
                         IN  PairOverlap(pa, pb)
             prs == SetToSeq(pairs)
             totalOverlap == RSum([i \in 1..Len(prs) |-> term(prs[i])])
             np == Cardinality(paths)
             maxPossibleOverlap == R(np * (np - 1), 2)
             overlapRatio == IF RLt(Zero, maxPossibleOverlap)
                             THEN RDiv(totalOverlap, maxPossibleOverlap)
                             ELSE Zero
         IN  RMax(Zero, RSub(One, overlapRatio))

calculateConfidence(paths, diversityScore) ==
    IF paths = {} THEN Zero
    ELSE LET ps == SetToSeq(paths)
             np == Len(ps)
             pathCountFactor == RMin(One, R(np, 3))
             lengths == [i \in 1..np |-> R(Len(ps[i]), 1)]
             avgLength == RDiv(RSum(lengths), R(np, 1))
             sq(x) == RMul(x, x)
             lengthVariance ==
                 RDiv(RSum([i \in 1..np |-> sq(RSub(lengths[i], avgLength))]),
                      R(np, 1))
             consistencyFactor == RDiv(One, RAdd(One, lengthVariance))
         IN  RAdd(RAdd(RMul(pathCountFactor, R(4, 10)),
                       RMul(diversityScore, R(4, 10))),
                  RMul(consistencyFactor, R(2, 10)))

ShortestLength(paths) ==
    CHOOSE l \in {Len(p) : p \in paths} : \A p \in paths : l <= Len(p)

\* The total weight averaged over the paths instead of summed.
PathScore_Averaged(paths, decayFactor) ==
    LET ps == SetToSeq(paths)
        totalWeight ==
            RSum([i \in 1..Len(ps) |-> PathWeight(ps[i], decayFactor)])
    IN  RMin(One, RDiv(totalWeight, R(Len(ps), 1)))

\* The total weight without the cap at 1.
PathScore_Uncapped(paths, decayFactor) ==
    LET ps == SetToSeq(paths)
    IN  RSum([i \in 1..Len(ps) |-> PathWeight(ps[i], decayFactor)])

PathScore(paths, decayFactor) ==
    LET ps == SetToSeq(paths)
        totalWeight ==
            RSum([i \in 1..Len(ps) |-> PathWeight(ps[i], decayFactor)])
    IN  RMin(One, totalWeight)

\* The direct-connection early return left out: the direct edge is then
\* just one more path of the search.
calculatePairwiseConnectedness_NoEarlyReturn(sourceHER, targetHER, graph, opts) ==
    LET paths == findWeightedPaths(sourceHER, targetHER, graph, opts.maxDepth)
    IN  IF paths = {}
        THEN [score |-> Zero, pathCount |-> 0, shortestPath |-> "Infinity",
              diversityScore |-> Zero, confidence |-> One]
        ELSE LET diversityScore == calculatePathDiversity(paths)
             IN  [score |-> PathScore(paths, opts.decayFactor),
                  pathCount |-> Cardinality(paths),
                  shortestPath |-> ShortestLength(paths),
                  diversityScore |-> diversityScore,
                  confidence |-> calculateConfidence(paths, diversityScore)]

calculatePairwiseConnectedness(sourceHER, targetHER, graph, opts) ==
    IF targetHER \in graph[sourceHER]
    THEN [score |-> One, pathCount |-> 1, shortestPath |-> 1,
          diversityScore |-> One, confidence |-> One]
    ELSE LET paths == findWeightedPaths(sourceHER, targetHER, graph,
                                        opts.maxDepth)
         IN  IF paths = {}
             THEN [score |-> Zero, pathCount |-> 0,
                   shortestPath |-> "Infinity",
                   diversityScore |-> Zero, confidence |-> One]
             ELSE LET diversityScore == calculatePathDiversity(paths)
                  IN  [score |-> PathScore(paths, opts.decayFactor),
                       pathCount |-> Cardinality(paths),
                       shortestPath |-> ShortestLength(paths),
                       diversityScore |-> diversityScore,
                       confidence |->
                           calculateConfidence(paths, diversityScore)]

\* The sponsor <-> human edge pair that buildSponsorGraph adds for one
\* declared sponsorship (a repeated declaration changes nothing).
AddSponsorEdges(graph, herCID, sponsor) ==
    [h \in HERs |->
        IF h = sponsor /\ h = herCID THEN graph[h] \cup {herCID}
        ELSE IF h = sponsor THEN graph[h] \cup {herCID}
        ELSE IF h = herCID THEN graph[h] \cup {sponsor}
        ELSE graph[h]]

NoQuery == [source |-> "none"]
NoResult == [score |-> "none"]

Evaluate(q, graph) ==
    IF q = NoQuery THEN NoResult
    ELSE calculatePairwiseConnectedness(
             q.source, q.target, graph,
             [maxDepth |-> q.maxDepth, decayFactor |-> q.decayFactor])

graphVars == <<sponsorGraph, query, result>>
safetyVars == <<safetyOpts, clock, issues, returned>>
ledgerVars == <<ledger, storage, response>>
creditVars == <<creditCall, ledgerVars>>
contractVars == <<contractStore, handlers>>
vars == <<sponsorGraph, query, result, safetyOpts, clock, issues, returned,
          creditCall, ledger, storage, response, contractStore, handlers>>
notGraphVars == <<safetyVars, creditVars, contractVars>>
notSafetyVars == <<graphVars, creditVars, contractVars>>
notCreditVars == <<graphVars, safetyVars, contractVars>>
notContractVars == <<graphVars, safetyVars, creditCall, ledger, storage>>

\* The state of the components a specification leaves alone.
IdleGraph ==
    /\ sponsorGraph = [h \in HERs |-> {}]
    /\ query = NoQuery
    /\ result = NoResult
IdleSafety ==
    /\ safetyOpts = [enableDecay |-> FALSE]
    /\ clock = 0
    /\ issues = <<>>
    /\ returned = [op |-> "none"]
IdleAward == creditCall = [op |-> "none"]
IdleLedger ==
    /\ ledger = [human |-> "none"]
    /\ storage = [earn_events |-> "none"]
    /\ response = [op |-> "none"]
IdleCredit == IdleAward /\ IdleLedger
IdleContract ==
    /\ contractStore = [contract_id |-> "none"]
    /\ handlers = <<>>

InitGraph ==
    /\ sponsorGraph = [h \in HERs |-> {}]
    /\ query = NoQuery
    /\ result = NoResult
    /\ IdleSafety
    /\ IdleCredit
    /\ IdleContract

\* One sponsorship is declared and the graph rebuilt; the pending query is
\* evaluated again on the grown graph.
Sponsor(herCID, sponsor) ==
    /\ sponsorGraph' = AddSponsorEdges(sponsorGraph, herCID, sponsor)
    /\ sponsorGraph' # sponsorGraph
    /\ result' = Evaluate(query, sponsorGraph')
    /\ UNCHANGED <<query, notGraphVars>>

\* calculatePairwiseConnectedness(source, target, sponsorGraph, options)
Ask(source, target, maxDepth, decayFactor) ==
    /\ query' = [source |-> source, target |-> target,
                 maxDepth |-> maxDepth, decayFactor |-> decayFactor]
    /\ result' = Evaluate(query', sponsorGraph)
    /\ UNCHANGED <<sponsorGraph, notGraphVars>>

NextGraph ==
    \/ \E h, s \in HERs : Sponsor(h, s)
    \/ \E a \in QuerySources, b \in HERs, md \in MaxDepths,
          df \in DecayFactors : Ask(a, b, md, df)

SpecGraph == InitGraph /\ [][NextGraph]_vars

(***************************************************************************)
(* Claims about connectedness                                              *)
(***************************************************************************)
\* The HERs a walk of at most k edges leads to from the HERs in `from`
\* (a walk of at most k edges exists exactly when a simple path of at most
\* k edges does).
RECURSIVE ReachWithin(_, _, _)
ReachWithin(graph, from, k) ==
    IF k = 0 THEN from
    ELSE ReachWithin(graph, from \cup UNION {graph[h] : h \in from}, k - 1)

Asked == query # NoQuery
Direct == Asked /\ query.target \in sponsorGraph[query.source]
NoPathWithinMaxDepth ==
    /\ Asked
    /\ query.target \notin ReachWithin(sponsorGraph, {query.source},
                                       query.maxDepth)

\* C1: whenever the target is listed as a direct neighbour of the source,
\* the result is score 1, pathCount 1, shortestPath 1, diversityScore 1 and
\* confidence 1, whatever other paths exist and whatever the options are.
C1_DirectIsMaximal ==
    Direct =>
        result = [score |-> One, pathCount |-> 1, shortestPath |-> 1,
                  diversityScore |-> One, confidence |-> One]

\* A direct neighbour that is also reached through a third HER, asked with
\* maxDepth 0 and without decay.
C1_Witness ==
    /\ Direct
    /\ query.source # query.target
    /\ \E c \in HERs \ {query.source, query.target} :
           /\ c \in sponsorGraph[query.source]
           /\ query.target \in sponsorGraph[c]
    /\ query.maxDepth = 0
    /\ query.decayFactor = One
    /\ result.score = One

\* C2 as stated: whenever no simple path of at most maxDepth edges leads
\* from the source to the target, the result is score 0, pathCount 0 and
\* confidence 1.
C2_Original ==
    NoPathWithinMaxDepth =>
        /\ result.score = Zero
        /\ result.pathCount = 0
        /\ result.confidence = One

\* C2 as amended: whenever the target is not a direct neighbour of the
\* source and no simple path of at most maxDepth edges leads from the
\* source to the target, the result is score 0, pathCount 0, confidence 1.
C2_NoPathIsCertainAbsence ==
    (NoPathWithinMaxDepth /\ ~Direct) =>
        /\ result.score = Zero
        /\ result.pathCount = 0
        /\ result.confidence = One

\* The target lies beyond maxDepth: reachable, but only by longer paths.
C2_Witness ==
    /\ NoPathWithinMaxDepth
    /\ ~Direct
    /\ query.maxDepth >= 1
    /\ query.target \in ReachWithin(sponsorGraph, {query.source},
                                    Cardinality(HERs))
    /\ result.score = Zero
    /\ result.confidence = One

\* C3: in a step that adds sponsor edges to the (symmetric) graph, the
\* score of the same query never decreases.
C3_ScoreMonotone ==
    [][(Asked /\ query' = query /\ sponsorGraph' # sponsorGraph
          /\ \A h \in HERs : sponsorGraph[h] \subseteq sponsorGraph'[h])
        => RGe(result'.score, result.score)]_vars

\* Several indirect paths that reinforce each other: the score is above the
\* weight of any single indirect path and below the cap.
C3_Witness ==
    /\ Asked
    /\ ~Direct
    /\ result.pathCount >= 3
    /\ RLt(RPow(query.decayFactor, 2), result.score)
    /\ RLt(result.score, One)
    /\ \A h, g \in HERs : (g \in sponsorGraph[h]) <=> (h \in sponsorGraph[g])

(***************************************************************************)
(* Safety tiers (safety_tiers.ts)                                          *)
(***************************************************************************)
NONE == 0
LOW == 1
MEDIUM == 2
HIGH == 3
CRITICAL == 4

DecayHalfLifeDefault == 168

DEFAULT_OPTIONS ==
    [tierThresholds |-> [low |-> R(1, 10), medium |-> R(3, 10),
                         high |-> R(6, 10), critical |-> R(85, 100)],
     decayHalfLife |-> DecayHalfLifeDefault,
     enableDecay |-> TRUE,
     maxImpactScore |-> One,
     minConnectednessForImpact |-> R(5, 100)]

\* A caller's configuration with its own (valid, strictly increasing)
\* thresholds and a shorter half-life.
CUSTOM_OPTIONS ==
    [tierThresholds |-> [low |-> R(2, 10), medium |-> R(4, 10),
                         high |-> R(7, 10), critical |-> R(9, 10)],
     decayHalfLife |-> DecayHalfLifeDefault \div 2,
     enableDecay |-> TRUE,
     maxImpactScore |-> One,
     minConnectednessForImpact |-> R(5, 100)]

SafetyConfigs == {DEFAULT_OPTIONS, CUSTOM_OPTIONS}

\* Inputs tried, in and out of [0, 1].
ConnectednessLevels == {R(-1, 2), R(1, 25), R(1, 2), R(3, 2)}
SeverityLevels == {Zero, R(1, 4), R(7, 10), R(3, 2)}
ConfidenceLevels == {R(-1, 2), One}

NoTimer == [set |-> FALSE]

determineTier(impactScore, thresholds) ==
    IF RGe(impactScore, thresholds.critical) THEN CRITICAL
    ELSE IF RGe(impactScore, thresholds.high) THEN HIGH
    ELSE IF RGe(impactScore, thresholds.medium) THEN MEDIUM
    ELSE IF RGe(impactScore, thresholds.low) THEN LOW
    ELSE NONE

\* The switch with fall-through, de-duplicated.
determineFrictions(tier, impactScore) ==
    (IF tier >= CRITICAL
     THEN {"interaction", "review", "supporter", "visibility", "warning"}
     ELSE {})
    \cup (IF tier >= HIGH THEN {"verification", "cooldown"} ELSE {})
    \cup (IF tier >= MEDIUM THEN {"rate_limit", "warning"} ELSE {})
    \cup (IF tier >= LOW THEN {"rate_limit"} ELSE {})

\* calculateSafetyTier without the minimum-connectedness early return.
calculateSafetyTier_NoFloor(connectedness, severity, confidence, opts, now) ==
    LET rawImpact == RMul(RMul(Clamp01(connectedness), Clamp01(severity)),
                          Clamp01(confidence))
        impactScore == RMin(rawImpact, opts.maxImpactScore)
        tier == determineTier(impactScore, opts.tierThresholds)
    IN  [impactScore |-> impactScore, tier |-> tier,
         frictions |-> determineFrictions(tier, impactScore),
         decayTimer |-> NoTimer, appealable |-> tier >= MEDIUM]

\* `now` is the value of new Date() at the call.
calculateSafetyTier(connectedness, severity, confidence, opts, now) ==
    LET boundedC == Clamp01(connectedness)
        boundedS == Clamp01(severity)
        boundedK == Clamp01(confidence)
    IN  IF RLt(boundedC, opts.minConnectednessForImpact)
        THEN [impactScore |-> Zero, tier |-> NONE, frictions |-> {},
              decayTimer |-> NoTimer, appealable |-> FALSE]
        ELSE LET rawImpact == RMul(RMul(boundedC, boundedS), boundedK)
                 impactScore == RMin(rawImpact, opts.maxImpactScore)
                 tier == determineTier(impactScore, opts.tierThresholds)
                 decayTimer ==
                     IF opts.enableDecay
                     THEN [set |-> TRUE,
                           halfLifeHours |-> opts.decayHalfLife,
                           startTime |-> now,
                           initialImpact |-> impactScore,
                           currentMultiplier |-> One]
                     ELSE NoTimer
             IN  [impactScore |-> impactScore, tier |-> tier,
                  frictions |-> determineFrictions(tier, impactScore),
                  decayTimer |-> decayTimer,
                  appealable |-> tier >= MEDIUM]

\* Math.pow(0.5, hoursElapsed / halfLifeHours).  Every clock value and start
\* time of the model is a multiple of every half-life in SafetyConfigs, so
\* the exponent is a natural number and the power is exact.
DecayMultiplier(hoursElapsed, halfLifeHours) ==
    RPow(R(1, 2), hoursElapsed \div halfLifeHours)

\* The decay applied to the running impact score instead of the stored
\* initial impact.
updateDecayedImpact_Running(res, now) ==
    IF ~res.decayTimer.set THEN res
    ELSE LET decayMultiplier ==
                 DecayMultiplier(now - res.decayTimer.startTime,
                                 res.decayTimer.halfLifeHours)
             currentImpact == RMul(res.impactScore, decayMultiplier)
             newTier == determineTier(currentImpact,
                                      DEFAULT_OPTIONS.tierThresholds)
         IN  [res EXCEPT
                 !.impactScore = currentImpact,
                 !.tier = newTier,
                 !.frictions = determineFrictions(newTier, currentImpact),
                 !.decayTimer.currentMultiplier = decayMultiplier]

\* The decay that lowers the impact score and leaves tier and frictions as
\* they were.
updateDecayedImpact_TierKept(res, now) ==
    IF ~res.decayTimer.set THEN res
    ELSE LET decayMultiplier ==
                 DecayMultiplier(now - res.decayTimer.startTime,
                                 res.decayTimer.halfLifeHours)
         IN  [res EXCEPT
                 !.impactScore = RMul(res.decayTimer.initialImpact,
                                      decayMultiplier),
                 !.decayTimer.currentMultiplier = decayMultiplier]

\* `now` is Date.now() at the call.
updateDecayedImpact(res, now) ==
    IF ~res.decayTimer.set THEN res
    ELSE LET halfLifeHours == res.decayTimer.halfLifeHours
             startTime == res.decayTimer.startTime
             initialImpact == res.decayTimer.initialImpact
             hoursElapsed == now - startTime
             decayMultiplier == DecayMultiplier(hoursElapsed, halfLifeHours)
             currentImpact == RMul(initialImpact, decayMultiplier)
             newTier == determineTier(currentImpact,
                                      DEFAULT_OPTIONS.tierThresholds)
             newFrictions == determineFrictions(newTier, currentImpact)
         IN  [res EXCEPT
                 !.impactScore = currentImpact,
                 !.tier = newTier,
                 !.frictions = newFrictions,
                 !.decayTimer.currentMultiplier = decayMultiplier]

RECURSIVE RMaxOf(_)
RMaxOf(seq) ==
    IF Len(seq) = 1 THEN seq[1] ELSE RMax(Head(seq), RMaxOf(Tail(seq)))

\* `opts` is accepted and never read, as in the code.
calculateAggregateSafetyTier(subjectIssues, opts, now) ==
    IF Len(subjectIssues) = 0
    THEN [impactScore |-> Zero, tier |-> NONE, frictions |-> {},
          decayTimer |-> NoTimer, appealable |-> FALSE]
    ELSE LET currentIssues ==
                 [i \in 1..Len(subjectIssues) |->
                     updateDecayedImpact(subjectIssues[i], now)]
             maxImpact ==
                 RMaxOf([i \in 1..Len(currentIssues) |->
                            currentIssues[i].impactScore])
             diversityFactor ==
                 RMin(R(12, 10),
                      RAdd(One, RMul(R(Len(currentIssues) - 1, 1), R(1, 10))))
             aggregateImpact == RMin(RMul(maxImpact, diversityFactor), One)
             tier == determineTier(aggregateImpact,
                                   DEFAULT_OPTIONS.tierThresholds)
         IN  [impactScore |-> aggregateImpact, tier |-> tier,
              frictions |-> determineFrictions(tier, aggregateImpact),
              decayTimer |-> NoTimer,
              appealable |->
                  \E i \in 1..Len(currentIssues) : currentIssues[i].appealable]

\* Bounds of the safety state machine.
MaxIssues == 1
MaxTicks == 2

NoCall == [op |-> "none"]

InitSafety ==
    /\ safetyOpts \in SafetyConfigs
    /\ clock = 0
    /\ issues = <<>>
    /\ returned = NoCall
    /\ IdleGraph
    /\ IdleCredit
    /\ IdleContract

\* A report is filed: calculateSafetyTier(c, s, k, options); the caller
\* keeps the result.
Report(c, s, k) ==
    /\ Len(issues) < MaxIssues
    /\ LET r == calculateSafetyTier(c, s, k, safetyOpts, clock)
       IN  /\ issues' = Append(issues, [original |-> r, current |-> r,
                                        evaluations |-> 0,
                                        evaluatedAt |-> clock])
           /\ returned' = [op |-> "calculateSafetyTier",
                           connectedness |-> c, severity |-> s,
                           confidence |-> k, res |-> r]
    /\ UNCHANGED <<safetyOpts, clock, notSafetyVars>>

\* updateDecayedImpact on a kept result (already evaluated or not); the
\* caller keeps the returned result in its place.
EvaluateDecay(i) ==
    /\ i \in 1..Len(issues)
    /\ LET r == updateDecayedImpact(issues[i].current, clock)
       IN  /\ issues' = [issues EXCEPT
                            ![i].current = r,
                            ![i].evaluations = MinInt(@ + 1, 2),
                            ![i].evaluatedAt = clock]
           /\ returned' = [op |-> "updateDecayedImpact", res |-> r]
    /\ UNCHANGED <<safetyOpts, clock, notSafetyVars>>

\* calculateAggregateSafetyTier over the kept results, with the caller's
\* options.
Aggregate ==
    /\ returned' =
           [op |-> "calculateAggregateSafetyTier",
            res |-> calculateAggregateSafetyTier(
                        [i \in 1..Len(issues) |-> issues[i].current],
                        safetyOpts, clock)]
    /\ UNCHANGED <<safetyOpts, clock, issues, notSafetyVars>>

\* Time passes: one default half-life.
Tick ==
    /\ clock < MaxTicks * DecayHalfLifeDefault
    /\ clock' = clock + DecayHalfLifeDefault
    /\ UNCHANGED <<safetyOpts, issues, returned, notSafetyVars>>

NextSafety ==
    \/ \E c \in ConnectednessLevels, s \in SeverityLevels,
          k \in ConfidenceLevels : Report(c, s, k)
    \/ \E i \in 1..MaxIssues : EvaluateDecay(i)
    \/ Aggregate
    \/ Tick

SpecSafety == InitSafety /\ [][NextSafety]_vars

(***************************************************************************)
(* Claims about safety tiers                                               *)
(***************************************************************************)
Returned == returned.op # "none"

\* The highest tier whose threshold the impact meets (NONE if none is met).
HighestTierMet(impact, thresholds) ==
    LET met == {NONE}
               \cup (IF RLe(thresholds.low, impact) THEN {LOW} ELSE {})
               \cup (IF RLe(thresholds.medium, impact) THEN {MEDIUM} ELSE {})
               \cup (IF RLe(thresholds.high, impact) THEN {HIGH} ELSE {})
               \cup (IF RLe(thresholds.critical, impact) THEN {CRITICAL} ELSE {})
    IN  CHOOSE t \in met : \A u \in met : u <= t

\* C4: calculateSafetyTier returns tier NONE, impactScore 0, no frictions
\* and appealable = false whenever the connectedness clamped to [0,1] is
\* below minConnectednessForImpact, for every severity and confidence.
C4_BelowFloorIsNone ==
    (/\ returned.op = "calculateSafetyTier"
     /\ RLt(Clamp01(returned.connectedness),
            safetyOpts.minConnectednessForImpact))
    => /\ returned.res.tier = NONE
       /\ returned.res.impactScore = Zero
       /\ returned.res.frictions = {}
       /\ returned.res.appealable = FALSE

\* A report of full severity and confidence from a reporter whose
\* connectedness is positive but below the floor.
C4_Witness ==
    /\ returned.op = "calculateSafetyTier"
    /\ RLt(Zero, returned.connectedness)
    /\ RLt(returned.connectedness, safetyOpts.minConnectednessForImpact)
    /\ RGe(returned.severity, One)
    /\ returned.confidence = One
    /\ returned.res.tier = NONE

\* C5: in every result returned by calculateSafetyTier, updateDecayedImpact
\* or calculateAggregateSafetyTier under one configuration, the tier is the
\* highest tier whose configured threshold the result's impactScore meets.
C5_TierFollowsConfiguredThresholds ==
    Returned =>
        returned.res.tier =
            HighestTierMet(returned.res.impactScore, safetyOpts.tierThresholds)

\* C6: in every returned result, appealable is true exactly when the tier
\* is MEDIUM, HIGH or CRITICAL.
C6_AppealableIffMediumOrAbove ==
    Returned => (returned.res.appealable <=> returned.res.tier >= MEDIUM)

\* C7: a kept result with a decay timer that has been evaluated, however
\* often and at whatever earlier times, carries the impactScore, tier,
\* frictions and currentMultiplier that one evaluation of the original
\* result at the time of the last evaluation gives, and the timer's
\* startTime and initialImpact are those of the original.
C7_DecayEvaluationIdempotent ==
    \A i \in 1..Len(issues) :
        (issues[i].original.decayTimer.set /\ issues[i].evaluations >= 1) =>
            LET once == updateDecayedImpact(issues[i].original,
                                            issues[i].evaluatedAt)
                cur == issues[i].current
            IN  /\ cur.impactScore = once.impactScore
                /\ cur.tier = once.tier
                /\ cur.frictions = once.frictions
                /\ cur.decayTimer.currentMultiplier =
                       once.decayTimer.currentMultiplier
                /\ cur.decayTimer.startTime =
                       issues[i].original.decayTimer.startTime
                /\ cur.decayTimer.initialImpact =
                       issues[i].original.decayTimer.initialImpact

\* A result with a timer, evaluated at least twice, last after its start
\* time, whose tier has fallen.
C7_Witness ==
    \E i \in 1..Len(issues) :
        /\ issues[i].original.decayTimer.set
        /\ issues[i].evaluations >= 2
        /\ issues[i].evaluatedAt >
               issues[i].original.decayTimer.startTime + DecayHalfLifeDefault
        /\ issues[i].current.tier < issues[i].original.tier


(***************************************************************************)
(* Credit flow (social/credit_system/math/credit_flow.ts)                  *)
(***************************************************************************)

\* getDefaultCreditParameters
getDefaultCreditParameters ==
    [C_max |-> R(100, 1), I_max_per_epoch |-> Zero, S_max_per_epoch |-> Zero,
     beta0 |-> R(6, 10), beta1 |-> R(4, 10), theta |-> R(1, 2),
     c_local |-> R(2, 1), c_xbranch |-> R(5, 1), c_global |-> R(10, 1),
     H_c_days |-> R(180, 1), delta |-> R(1, 2)]

\* CreditParameters a caller may pass: the defaults, a negative base
\* multiplier and a negative proximity multiplier.
ParamSets ==
    {getDefaultCreditParameters,
     [getDefaultCreditParameters EXCEPT !.beta0 = R(-1, 5)],
     [getDefaultCreditParameters EXCEPT !.beta1 = R(-2, 5)]}

\* sigmoid(x) = 1 / (1 + Math.exp(-x)), to four decimals, at the inputs
\* theta - branch_avg_credits / C_max takes here.
sigmoid(x) ==
    CASE x = R(-1, 1) -> R(2689, 10000)
      [] x = R(-1, 2) -> R(3775, 10000)
      [] x = Zero     -> R(1, 2)
      [] x = R(38, 100) -> R(5939, 10000)
      [] x = R(44, 100) -> R(6083, 10000)
      [] x = R(1, 2)  -> R(6225, 10000)
      [] x = One      -> R(7311, 10000)

\* The award with a proximity factor that falls as proximity grows.
calculateCreditAward_FartherEarnsMore(event, params) ==
    LET base_award == event.action.base_award
        confidence == Clamp01(event.evidence_confidence)
        diversity == Clamp01(event.diversity_factor)
        proximity_factor ==
            RSub(params.beta0,
                 RMul(params.beta1, Clamp01(event.proximity_score)))
        scarcity_input ==
            RSub(params.theta, RDiv(event.branch_avg_credits, params.C_max))
        scarcity_bonus == sigmoid(scarcity_input)
        award == RMul(RMul(RMul(RMul(base_award, confidence), diversity),
                           proximity_factor), scarcity_bonus)
    IN  RMax(Zero, award)

calculateCreditAward(event, params) ==
    LET base_award == event.action.base_award
        confidence == Clamp01(event.evidence_confidence)
        diversity == Clamp01(event.diversity_factor)
        proximity_factor ==
            RAdd(params.beta0,
                 RMul(params.beta1, Clamp01(event.proximity_score)))
        scarcity_input ==
            RSub(params.theta, RDiv(event.branch_avg_credits, params.C_max))
        scarcity_bonus == sigmoid(scarcity_input)
        award == RMul(RMul(RMul(RMul(base_award, confidence), diversity),
                           proximity_factor), scarcity_bonus)
    IN  RMax(Zero, award)

\* Array.prototype.includes
Includes(arr, x) == \E i \in 1..Len(arr) : arr[i] = x

Invalid(reason) == [valid |-> FALSE, reason |-> reason]
Valid == [valid |-> TRUE, reason |-> "undefined"]

\* The validation with a confidence check that lets 0 through.
validateEarnEvent_ZeroConfidencePasses(event, params) ==
    IF RLt(event.evidence_confidence, Zero)
    THEN Invalid("Evidence confidence must be positive")
    ELSE IF RLe(event.diversity_factor, Zero)
    THEN Invalid("Diversity factor must be positive")
    ELSE IF Len(event.witnesses) = 0
    THEN Invalid("At least one witness required")
    ELSE IF Len(event.subject_set) = 0
    THEN Invalid("Subject set cannot be empty")
    ELSE IF Includes(event.subject_set, event.helper)
    THEN Invalid("Helper cannot earn credits for helping themselves")
    ELSE Valid

validateEarnEvent(event, params) ==
    IF RLe(event.evidence_confidence, Zero)
    THEN Invalid("Evidence confidence must be positive")
    ELSE IF RLe(event.diversity_factor, Zero)
    THEN Invalid("Diversity factor must be positive")
    ELSE IF Len(event.witnesses) = 0
    THEN Invalid("At least one witness required")
    ELSE IF Len(event.subject_set) = 0
    THEN Invalid("Subject set cannot be empty")
    ELSE IF Includes(event.subject_set, event.helper)
    THEN Invalid("Helper cannot earn credits for helping themselves")
    ELSE Valid


(***************************************************************************)
(* Calls of calculateCreditAward and validateEarnEvent                     *)
(***************************************************************************)

Helper == "h1"
BaseAwards == {R(-8, 1), Zero, R(8, 1)}
SubjectSets == {<<>>, <<"h1">>, <<"h2">>, <<"h2", "h1">>}
EvidenceLevels == {R(-1, 2), Zero, R(1, 2), R(3, 2)}
DiversityLevels == {R(-1, 2), Zero, One}
ProximityLevels == {R(-1, 2), R(1, 4), R(1, 2), R(3, 2)}
BranchAverages == {Zero, R(50, 1)}
WitnessLists == {<<>>, <<"w1">>}

EarnEvents ==
    [helper : {Helper},
     action : [type : {"mediation"}, base_award : BaseAwards],
     subject_set : SubjectSets,
     evidence_confidence : EvidenceLevels,
     diversity_factor : DiversityLevels,
     proximity_score : ProximityLevels,
     branch_avg_credits : BranchAverages,
     witnesses : WitnessLists]

\* The arguments are drawn first; the calls then apply the functions to them.
InitAward ==
    /\ creditCall \in [op : {"none"}, event : EarnEvents, params : ParamSets,
                       value : {"none"}]
    /\ IdleLedger
    /\ IdleGraph
    /\ IdleSafety
    /\ IdleContract

CalculateAward ==
    /\ creditCall' =
           [creditCall EXCEPT
               !.op = "calculateCreditAward",
               !.value = calculateCreditAward(creditCall.event,
                                              creditCall.params)]
    /\ UNCHANGED <<ledgerVars, notCreditVars>>

ValidateEarn ==
    /\ creditCall' =
           [creditCall EXCEPT
               !.op = "validateEarnEvent",
               !.value = validateEarnEvent(creditCall.event,
                                           creditCall.params)]
    /\ UNCHANGED <<ledgerVars, notCreditVars>>

NextAward ==
    \/ CalculateAward
    \/ ValidateEarn

SpecAward == InitAward /\ [][NextAward]_vars

\* C8: calculateCreditAward returns 0 whenever evidence_confidence is 0 or
\* diversity_factor is 0; its value is never negative; and when base_award
\* >= 0 and beta1 >= 0, the same event with any lower proximity_score is
\* awarded no more.
C8_AwardZeroMonotoneNonNegative ==
    creditCall.op = "calculateCreditAward" =>
        LET e == creditCall.event
            p == creditCall.params
            v == creditCall.value
        IN  /\ (e.evidence_confidence = Zero \/ e.diversity_factor = Zero)
                   => v = Zero
            /\ RGe(v, Zero)
            /\ (RGe(e.action.base_award, Zero) /\ RGe(p.beta1, Zero)) =>
                   \A q \in ProximityLevels :
                       RLe(q, e.proximity_score) =>
                           RLe(calculateCreditAward(
                                   [e EXCEPT !.proximity_score = q], p), v)

\* A positive award that is strictly larger than the award of the same event
\* at a lower proximity.
C8_Witness ==
    /\ creditCall.op = "calculateCreditAward"
    /\ RGe(creditCall.event.action.base_award, Zero)
    /\ RGe(creditCall.params.beta1, Zero)
    /\ \E q \in ProximityLevels :
           /\ RLt(q, creditCall.event.proximity_score)
           /\ RLt(calculateCreditAward(
                      [creditCall.event EXCEPT !.proximity_score = q],
                      creditCall.params),
                  creditCall.value)

\* The reasons of the checks an event violates, in the order confidence,
\* diversity, witnesses, subject set, self-help.
ViolatedReasons(e) ==
    (IF e.evidence_confidence.n > 0
     THEN <<>> ELSE <<"Evidence confidence must be positive">>)
    \o (IF e.diversity_factor.n > 0
        THEN <<>> ELSE <<"Diversity factor must be positive">>)
    \o (IF e.witnesses # <<>>
        THEN <<>> ELSE <<"At least one witness required">>)
    \o (IF e.subject_set # <<>>
        THEN <<>> ELSE <<"Subject set cannot be empty">>)
    \o (IF e.helper \notin Range(e.subject_set)
        THEN <<>> ELSE <<"Helper cannot earn credits for helping themselves">>)

\* C9: validateEarnEvent returns valid exactly when the event violates none
\* of the five checks; otherwise it returns invalid with the reason of the
\* first violated check in the order confidence, diversity, witnesses,
\* subject set, self-help, and the five reasons are distinct.
C9_ValidExactlyWhenNoCheckFails ==
    creditCall.op = "validateEarnEvent" =>
        LET e == creditCall.event
            v == creditCall.value
            reasons == ViolatedReasons(e)
        IN  /\ v.valid <=> reasons = <<>>
            /\ ~v.valid => v.reason = Head(reasons)
            /\ v.valid => v.reason = "undefined"
            /\ Cardinality(
                   {"Evidence confidence must be positive",
                    "Diversity factor must be positive",
                    "At least one witness required",
                    "Subject set cannot be empty",
                    "Helper cannot earn credits for helping themselves"}) = 5

\* An event that violates at least two checks is rejected with one reason.
C9_Witness ==
    /\ creditCall.op = "validateEarnEvent"
    /\ Len(ViolatedReasons(creditCall.event)) >= 2
    /\ ~creditCall.value.valid


(***************************************************************************)
(* Credit balances: applyCreditDecay, updateCreditBalance, handleEarnCredit *)
(***************************************************************************)

\* Math.pow(x, y) for an integral y
MathPow(x, y) ==
    IF y.n >= 0 THEN RPow(x, y.n) ELSE RDiv(One, RPow(x, -y.n))

applyCreditDecay(balance, current_epoch, epoch_duration_hours, params) ==
    LET epochs_elapsed == current_epoch - balance.last_updated_epoch
        hours_elapsed == epochs_elapsed * epoch_duration_hours
        days_elapsed == R(hours_elapsed, 24)
        decay_multiplier ==
            MathPow(params.delta, RDiv(days_elapsed, params.H_c_days))
        decayed_balance == RMul(balance.balance, decay_multiplier)
    IN  RMax(Zero, RMin(params.C_max, decayed_balance))

\* The update that adds the earnings and spends first and decays the sum.
updateCreditBalance_DecayLast(balance, earn_events, spend_events, current_epoch, epoch_duration_hours, params) ==
    LET total_earnings ==
            RSum([i \in 1..Len(earn_events) |->
                     IF ~validateEarnEvent(earn_events[i], params).valid
                     THEN Zero
                     ELSE calculateCreditAward(earn_events[i], params)])
        total_spends ==
            RSum([i \in 1..Len(spend_events) |-> spend_events[i].amount])
        undecayed ==
            [balance EXCEPT
                !.balance = RSub(RAdd(@, total_earnings), total_spends)]
        new_balance ==
            applyCreditDecay(undecayed, current_epoch, epoch_duration_hours,
                             params)
    IN  [balance EXCEPT
            !.balance = new_balance,
            !.last_updated_epoch = current_epoch,
            !.earn_history = @ \o earn_events,
            !.spend_history = @ \o spend_events]

updateCreditBalance(balance, earn_events, spend_events, current_epoch, epoch_duration_hours, params) ==
    LET decayed_balance ==
            applyCreditDecay(balance, current_epoch, epoch_duration_hours,
                             params)
        total_earnings ==
            RSum([i \in 1..Len(earn_events) |->
                     IF ~validateEarnEvent(earn_events[i], params).valid
                     THEN Zero
                     ELSE calculateCreditAward(earn_events[i], params)])
        total_spends ==
            RSum([i \in 1..Len(spend_events) |-> spend_events[i].amount])
        new_balance ==
            RMax(Zero, RMin(params.C_max,
                            RSub(RAdd(decayed_balance, total_earnings),
                                 total_spends)))
    IN  [balance EXCEPT
            !.balance = new_balance,
            !.last_updated_epoch = current_epoch,
            !.earn_history = @ \o earn_events,
            !.spend_history = @ \o spend_events]

\* The placeholders of the data layer in credit_endpoints.ts
validateRequestSignature(request) == TRUE
calculateProximityScore(helper, subject_set) == R(1, 2)
getBranchAverageCredits(member) == R(50, 1)
getCreditBalance(her_cid) ==
    [human |-> her_cid, balance |-> R(50, 1), last_updated_epoch |-> 1,
     earn_history |-> <<>>, spend_history |-> <<>>]

\* The data layer is not written yet; it is modelled as the record of what
\* the handlers hand to it.
storeEarnEvent(store, event) ==
    [store EXCEPT !.earn_events = Append(@, event)]
updateHelperCreditBalance(store, helper, award) ==
    [store EXCEPT !.credits = Append(@, [helper |-> helper, award |-> award])]

\* { ...earn_event, credit_award }
WithAward(e, award) ==
    [f \in DOMAIN e \cup {"credit_award"} |->
        IF f = "credit_award" THEN award ELSE e[f]]

\* handleEarnCredit: the response and the data layer after the request
handleEarnCredit(request, store) ==
    LET params == getDefaultCreditParameters
        proximity_score ==
            calculateProximityScore(request.helper, request.subject_set)
        branch_avg_credits == getBranchAverageCredits(request.helper)
        earn_event ==
            [helper |-> request.helper,
             action |-> request.action,
             subject_set |-> request.subject_set,
             evidence_confidence |-> request.evidence_confidence,
             diversity_factor |-> request.diversity_factor,
             proximity_score |-> proximity_score,
             branch_avg_credits |-> branch_avg_credits,
             witnesses |-> request.witnesses]
        validation == validateEarnEvent(earn_event, params)
        credit_award == calculateCreditAward(earn_event, params)
    IN  IF ~validateRequestSignature(request)
        THEN [result |-> [success |-> FALSE,
                          error |-> "Invalid request signature"],
              store |-> store]
        ELSE IF ~validation.valid
        THEN [result |-> [success |-> FALSE, error |-> validation.reason],
              store |-> store]
        ELSE [result |-> [success |-> TRUE, credit_award |-> credit_award,
                          earn_event |-> WithAward(earn_event, credit_award)],
              store |-> updateHelperCreditBalance(
                            storeEarnEvent(store,
                                WithAward(earn_event, credit_award)),
                            request.helper, credit_award)]


MaxHistory == 2     \* events a CreditBalance's histories hold in all
MaxEpoch == 3       \* the last epoch
MaxStored == 1      \* earn events the data layer is handed

\* One epoch lasts one credit half-life, so the decay multiplier is a power
\* of delta.
EpochDurationHours == 24 * getDefaultCreditParameters.H_c_days.n

\* Requests to POST /credit/earn: a sound one and its corruptions.
EarnRequests ==
    [helper : {Helper},
     action : [type : {"mediation"}, base_award : {R(8, 1)}],
     subject_set : {<<>>, <<"h1">>, <<"h2">>},
     evidence_confidence : {Zero, One},
     diversity_factor : {Zero, One},
     witnesses : WitnessLists]

\* The earn events a caller of updateCreditBalance passes: a sound one and
\* the five that fail one check each.
SoundEvent ==
    [helper |-> Helper,
     action |-> [type |-> "mediation", base_award |-> R(8, 1)],
     subject_set |-> <<"h2">>,
     evidence_confidence |-> One,
     diversity_factor |-> One,
     proximity_score |-> R(1, 2),
     branch_avg_credits |-> R(50, 1),
     witnesses |-> <<"w1">>]
LedgerEarnEvents ==
    {SoundEvent,
     [SoundEvent EXCEPT !.evidence_confidence = Zero],
     [SoundEvent EXCEPT !.diversity_factor = Zero],
     [SoundEvent EXCEPT !.witnesses = <<>>],
     [SoundEvent EXCEPT !.subject_set = <<>>],
     [SoundEvent EXCEPT !.subject_set = <<"h1">>]}
SpendEvents ==
    [requester : {Helper}, spend_type : {"local"},
     amount : {R(2, 1), R(60, 1), R(-5, 1)}]

\* Sequences over S of length at most n
SeqUpTo(S, n) == UNION {[1..k -> S] : k \in 0..n}

InitLedger ==
    /\ ledger = getCreditBalance(Helper)
    /\ storage = [earn_events |-> <<>>, credits |-> <<>>]
    /\ response = [op |-> "none"]
    /\ IdleAward
    /\ IdleGraph
    /\ IdleSafety
    /\ IdleContract

\* A caller replaces the balance it keeps by the one updateCreditBalance
\* returns.
UpdateBalance(earn_events, spend_events, current_epoch) ==
    /\ Len(ledger.earn_history) + Len(ledger.spend_history)
           + Len(earn_events) + Len(spend_events) <= MaxHistory
    /\ ledger' = updateCreditBalance(ledger, earn_events, spend_events,
                                     current_epoch, EpochDurationHours,
                                     getDefaultCreditParameters)
    /\ UNCHANGED <<storage, response, creditCall, notCreditVars>>

HandleEarnCredit(request) ==
    /\ Len(storage.earn_events) < MaxStored
    /\ LET out == handleEarnCredit(request, storage)
       IN  /\ storage' = out.store
           /\ response' = [op |-> "handleEarnCredit", request |-> request,
                           result |-> out.result]
    /\ UNCHANGED <<ledger, creditCall, notCreditVars>>

NextLedger ==
    \/ \E earn_events \in SeqUpTo(LedgerEarnEvents, 1),
          spend_events \in SeqUpTo(SpendEvents, 1),
          current_epoch \in 1..MaxEpoch :
           UpdateBalance(earn_events, spend_events, current_epoch)
    \/ \E request \in EarnRequests : HandleEarnCredit(request)

SpecLedger == InitLedger /\ [][NextLedger]_vars

Rejected(e) == ~validateEarnEvent(e, getDefaultCreditParameters).valid

\* C10: an earn event that validateEarnEvent rejects is never persisted: the
\* earn_history a balance update returns holds no rejected event and no
\* credit was added for one, no rejected event is handed to the data layer,
\* and a failed handleEarnCredit leaves the data layer as it was.
C10_RejectedNeverPersisted ==
    [][/\ \A i \in 1..Len(ledger'.earn_history) :
              ~Rejected(ledger'.earn_history[i])
       /\ \A i \in 1..Len(storage'.earn_events) :
              ~Rejected(storage'.earn_events[i])
       /\ (ledger' # ledger) =>
              LET earned == SubSeq(ledger'.earn_history,
                                   Len(ledger.earn_history) + 1,
                                   Len(ledger'.earn_history))
                  spent == SubSeq(ledger'.spend_history,
                                  Len(ledger.spend_history) + 1,
                                  Len(ledger'.spend_history))
                  accepted == SelectSeq(earned, LAMBDA e : ~Rejected(e))
              IN  ledger'.balance =
                      updateCreditBalance(
                          ledger, accepted, spent, ledger'.last_updated_epoch,
                          EpochDurationHours,
                          getDefaultCreditParameters).balance
       /\ (response' # response /\ ~response'.result.success)
              => storage' = storage]_vars


(***************************************************************************)
(* Sequences of updateCreditBalance calls on one balance                   *)
(***************************************************************************)

NextBalance ==
    \E earn_events \in SeqUpTo(LedgerEarnEvents, 1),
       spend_events \in SeqUpTo(SpendEvents, 1),
       current_epoch \in 1..MaxEpoch :
        UpdateBalance(earn_events, spend_events, current_epoch)

SpecBalance == InitLedger /\ [][NextBalance]_vars

InCreditRange(x) ==
    RGe(x, Zero) /\ RLe(x, getDefaultCreditParameters.C_max)

\* The decayed balance without the clamp: (1/2)^k times the balance, k the
\* epochs elapsed (an epoch lasting one half-life); for k < 0 it is doubled
\* -k times.
RECURSIVE Halved(_, _)
Halved(x, k) ==
    IF k = 0 THEN x
    ELSE IF k > 0 THEN Halved(R(x.n, 2 * x.d), k - 1)
    ELSE Halved(R(2 * x.n, x.d), k + 1)

\* The awards of the accepted events among those a call appended
EarnedBy(events) ==
    RSum([i \in 1..Len(events) |->
             IF Rejected(events[i]) THEN Zero
             ELSE calculateCreditAward(events[i],
                                       getDefaultCreditParameters)])

Floor(x) == x.n \div x.d

\* [...votes].sort((a, b) => a - b): insertion into an ascending sequence
RECURSIVE SortAscending(_)
SortAscending(votes) ==
    IF votes = <<>> THEN <<>>
    ELSE LET rest == SortAscending(Tail(votes))
             v == Head(votes)
             below == SelectSeq(rest, LAMBDA w : RLt(w, v))
             others == SelectSeq(rest, LAMBDA w : ~RLt(w, v))
         IN  below \o <<v>> \o others

\* Array.prototype.slice(start, end) for 0 <= start, end <= length
Slice(arr, start, end) ==
    IF start >= end THEN <<>> ELSE SubSeq(arr, start + 1, end)

\* The trimmed mean that trims the unsorted votes.
calculateTrimmedMean_Unsorted(votes, trim_percent) ==
    IF Len(votes) = 0 THEN Zero
    ELSE IF Len(votes) = 1 THEN votes[1]
    ELSE LET sorted == votes
             trim_count == Floor(RMul(R(Len(votes), 1), trim_percent))
             trimmed == Slice(sorted, trim_count, Len(sorted) - trim_count)
         IN  IF Len(trimmed) = 0
             THEN sorted[(Len(sorted) \div 2) + 1]
             ELSE RDiv(RSum(trimmed), R(Len(trimmed), 1))

calculateTrimmedMean(votes, trim_percent) ==
    IF Len(votes) = 0 THEN Zero
    ELSE IF Len(votes) = 1 THEN votes[1]
    ELSE LET sorted == SortAscending(votes)
             trim_count == Floor(RMul(R(Len(votes), 1), trim_percent))
             trimmed == Slice(sorted, trim_count, Len(sorted) - trim_count)
         IN  IF Len(trimmed) = 0
             THEN sorted[(Len(sorted) \div 2) + 1]
             ELSE RDiv(RSum(trimmed), R(Len(trimmed), 1))

\* Number.prototype.toFixed(2), as a number
ToFixed2(x) == R(Floor(RAdd(RMul(x, R(100, 1)), R(1, 2))), 100)

\* The reason strings of validateBranchApproval: the rule, the measured
\* value as printed and the required value.
Below(rule, measured, required) ==
    [rule |-> rule, measured |-> measured, required |-> required]

\* The validation with the approval threshold compared the wrong way round.
validateBranchApproval_ApprovalInverted(approval, branch_size, required_participation, required_paths, required_approval) ==
    IF RLt(approval.participation_rate, required_participation)
    THEN Invalid(Below("Participation",
                       ToFixed2(approval.participation_rate),
                       required_participation))
    ELSE IF RLt(approval.path_diversity_score, required_paths)
    THEN Invalid(Below("Path diversity", approval.path_diversity_score,
                       required_paths))
    ELSE IF RLt(required_approval, approval.trimmed_mean)
    THEN Invalid(Below("Approval", ToFixed2(approval.trimmed_mean),
                       required_approval))
    ELSE Valid

validateBranchApproval(approval, branch_size, required_participation, required_paths, required_approval) ==
    IF RLt(approval.participation_rate, required_participation)
    THEN Invalid(Below("Participation",
                       ToFixed2(approval.participation_rate),
                       required_participation))
    ELSE IF RLt(approval.path_diversity_score, required_paths)
    THEN Invalid(Below("Path diversity", approval.path_diversity_score,
                       required_paths))
    ELSE IF RLt(approval.trimmed_mean, required_approval)
    THEN Invalid(Below("Approval", ToFixed2(approval.trimmed_mean),
                       required_approval))
    ELSE Valid


\* The data layer behind handleSpendCredit is not written; it is modelled
\* as the record of what the handler hands to it.
storeSpendEvent(store, event) ==
    [store EXCEPT !.spend_events = Append(@, event)]
updateRequesterCreditBalance(store, requester, amount) ==
    [store EXCEPT
        !.debits = Append(@, [requester |-> requester, amount |-> amount])]

NoBranch == [id |-> "null"]

\* handleSpendCredit, given what getBranchByMember, calculatePathDiversity
\* and getCreditBalance returned: the response and the data layer after it
handleSpendCredit(request, branch, path_diversity, requester_balance, store) ==
    LET votes == [i \in 1..Len(request.branch_votes) |->
                     request.branch_votes[i].vote]
        branch_approval ==
            [branch_id |-> branch.id,
             voters |-> [i \in 1..Len(request.branch_votes) |->
                            request.branch_votes[i].voter],
             votes |-> votes,
             participation_rate |->
                 R(Len(request.branch_votes), Len(branch.members)),
             path_diversity_score |-> path_diversity,
             trimmed_mean |-> calculateTrimmedMean(votes, R(1, 10)),
             approved |-> FALSE]
        approval_validation ==
            validateBranchApproval(branch_approval, Len(branch.members),
                                   R(4, 10), R(3, 1), R(6, 10))
        approved == [branch_approval EXCEPT
                        !.approved = approval_validation.valid]
        spend_event ==
            [requester |-> request.requester,
             spend_type |-> request.spend_type,
             amount |-> request.amount,
             branch_approval |-> approved]
    IN  IF ~validateRequestSignature(request)
        THEN [result |-> [success |-> FALSE,
                          error |-> "Invalid request signature"],
              store |-> store]
        ELSE IF branch = NoBranch
        THEN [result |-> [success |-> FALSE,
                          error |-> "Requester not found in any branch"],
              store |-> store]
        ELSE IF ~approved.approved
        THEN [result |-> [success |-> FALSE,
                          error |-> "Branch approval failed",
                          reason |-> approval_validation.reason,
                          branch_approval |-> approved],
              store |-> store]
        ELSE IF RLt(requester_balance.balance, request.amount)
        THEN [result |-> [success |-> FALSE,
                          error |-> "Insufficient credits"],
              store |-> store]
        ELSE [result |-> [success |-> TRUE, spend_event |-> spend_event,
                          branch_approval |-> approved],
              store |-> updateRequesterCreditBalance(
                            storeSpendEvent(store, spend_event),
                            request.requester,
                            RSub(Zero, request.amount))]

MaxVoters == 3      \* votes one spend request carries

BranchMembers == <<"h1", "m2", "m3", "m4", "m5">>
Branches == {NoBranch, [id |-> "B1", members |-> BranchMembers]}
VoteValues == {Zero, R(3, 5), One}
\* One vote each from the first k members after the requester
BranchVotes ==
    UNION {[1..k -> VoteValues] : k \in 0..MaxVoters}
SpendRequests ==
    {[requester |-> Helper, spend_type |-> "local", amount |-> a,
      branch_votes |-> [i \in 1..Len(vs) |->
                           [voter |-> BranchMembers[i + 1], vote |-> vs[i]]]] :
        a \in {R(2, 1), R(60, 1), R(-5, 1)}, vs \in BranchVotes}
PathDiversities == {R(2, 1), R(3, 1)}

\* The request and what the data layer returns are drawn first; the handler
\* is then applied to them.
InitSpend ==
    /\ response \in [op : {"none"}, request : SpendRequests,
                     branch : Branches, path_diversity : PathDiversities,
                     requester_balance : {getCreditBalance(Helper)}]
    /\ storage = [spend_events |-> <<>>, debits |-> <<>>]
    /\ ledger = [human |-> "none"]
    /\ IdleAward
    /\ IdleGraph
    /\ IdleSafety
    /\ IdleContract

HandleSpendCredit ==
    /\ response.op = "none"
    /\ LET out == handleSpendCredit(response.request, response.branch,
                                    response.path_diversity,
                                    response.requester_balance, storage)
       IN  /\ storage' = out.store
           /\ response' = [op |-> "handleSpendCredit",
                           request |-> response.request,
                           branch |-> response.branch,
                           path_diversity |-> response.path_diversity,
                           requester_balance |-> response.requester_balance,
                           result |-> out.result]
    /\ UNCHANGED <<ledger, creditCall, notCreditVars>>

NextSpend == HandleSpendCredit

SpecSpend == InitSpend /\ [][NextSpend]_vars


\* The quorum rules a handled spend request fails, in the order
\* participation, path diversity, approval, each with its measured and its
\* required value.  The votes are few enough for the trimmed mean to be the
\* plain mean.
FailedQuorumRules ==
    LET votes == response.request.branch_votes
        members == Range(response.branch.members)
        voted == {votes[i].voter : i \in 1..Len(votes)} \cap members
        participation == R(Cardinality(voted), Cardinality(members))
        mean == IF Len(votes) = 0 THEN Zero
                ELSE RDiv(RSum([i \in 1..Len(votes) |-> votes[i].vote]),
                          R(Len(votes), 1))
    IN  (IF 10 * participation.n >= 4 * participation.d THEN <<>>
         ELSE <<Below("Participation", participation, R(4, 10))>>)
        \o (IF response.path_diversity.n >= 3 * response.path_diversity.d
            THEN <<>>
            ELSE <<Below("Path diversity", response.path_diversity,
                         R(3, 1))>>)
        \o (IF 10 * mean.n >= 6 * mean.d THEN <<>>
            ELSE <<Below("Approval", mean, R(6, 10))>>)

MaxVotes == 10      \* yes/no votes in one list
MaxGradedVotes == 4 \* graded votes in one list

TrimVotes ==
    UNION {[1..k -> {Zero, One}] : k \in 0..MaxVotes}
    \cup UNION {[1..k -> VoteValues] : k \in 0..MaxGradedVotes}
TrimPercents == {R(1, 10), R(1, 4), R(1, 2)}

InitTrim ==
    /\ creditCall \in [op : {"none"}, votes : TrimVotes,
                       trim_percent : TrimPercents, value : {"none"}]
    /\ IdleLedger
    /\ IdleGraph
    /\ IdleSafety
    /\ IdleContract

CalculateTrimmedMean ==
    /\ creditCall.op = "none"
    /\ creditCall' =
           [creditCall EXCEPT
               !.op = "calculateTrimmedMean",
               !.value = calculateTrimmedMean(creditCall.votes,
                                              creditCall.trim_percent)]
    /\ UNCHANGED <<ledgerVars, notCreditVars>>

NextTrim == CalculateTrimmedMean

SpecTrim == InitTrim /\ [][NextTrim]_vars

\* The i-th smallest of the votes, by counting
OrderStatistic(votes, i) ==
    CHOOSE v \in Range(votes) :
        /\ Cardinality({j \in 1..Len(votes) : RLt(votes[j], v)}) < i
        /\ Cardinality({j \in 1..Len(votes) : RLe(votes[j], v)}) >= i

\* The mean of the votes left when the k smallest and the k largest are
\* removed, k = floor(n * p); the median element when none is left
TrimmedMeanOf(votes, p) ==
    LET n == Len(votes)
        k == (n * p.n) \div p.d
    IN  IF n = 0 THEN Zero
        ELSE IF n = 1 THEN votes[1]
        ELSE IF n - 2 * k <= 0 THEN OrderStatistic(votes, (n \div 2) + 1)
        ELSE RDiv(RSum([i \in 1..(n - 2 * k) |->
                           OrderStatistic(votes, k + i)]),
                  R(n - 2 * k, 1))

\* C13: calculateTrimmedMean(votes, p) is the mean of the ascending votes
\* without floor(n*p) values at each end (the median element if none is
\* left, 0 for no votes, the vote itself for one vote): at p = 0.1 fewer
\* than 10 votes give their plain mean, any order of 0,0,1,1,1 gives 0.6,
\* and the votes in reverse order give the same value.
C13_TrimmedMean ==
    creditCall.op = "calculateTrimmedMean" =>
        LET votes == creditCall.votes
            p == creditCall.trim_percent
            n == Len(votes)
        IN  /\ creditCall.value = TrimmedMeanOf(votes, p)
            /\ (p = R(1, 10) /\ n >= 1 /\ n < 10) =>
                   creditCall.value = RDiv(RSum(votes), R(n, 1))
            /\ (p = R(1, 10) /\ n = 5
                /\ Cardinality({j \in 1..n : votes[j] = One}) = 3
                /\ Cardinality({j \in 1..n : votes[j] = Zero}) = 2) =>
                   creditCall.value = R(6, 10)
            /\ creditCall.value =
                   calculateTrimmedMean([i \in 1..n |-> votes[n + 1 - i]], p)

\* Ten votes given in descending order at 10%: one vote is dropped at each
\* end and the result is not the plain mean.
C13_Witness ==
    /\ creditCall.op = "calculateTrimmedMean"
    /\ creditCall.trim_percent = R(1, 10)
    /\ Len(creditCall.votes) = 10
    /\ creditCall.votes[1] = One
    /\ creditCall.votes[10] = Zero
    /\ creditCall.value # RDiv(RSum(creditCall.votes), R(10, 1))


(***************************************************************************)
(* Cross-branch escalation (social/credit_system/math/cross_branch.ts)     *)
(***************************************************************************)

getDefaultEscalationParameters ==
    [gamma1 |-> R(6, 10), gamma2 |-> R(3, 10), gamma3 |-> R(1, 10),
     Theta_esc |-> R(35, 100),
     lambda1 |-> R(6, 10), lambda2 |-> R(3, 10), lambda3 |-> R(1, 10),
     max_neighbors |-> 5, theta |-> R(1, 2)]

\* Map.prototype.get(key) || 0
GetOrZero(map, key) == IF key \in DOMAIN map THEN map[key] ELSE Zero

\* The member's connectedness to the subject set: the loop over the
\* subjects keeping the maximum
RECURSIVE MemberConnectedness(_, _, _, _)
MemberConnectedness(member, subjects, connectedness_map, acc) ==
    IF subjects = <<>> THEN acc
    ELSE MemberConnectedness(
             member, Tail(subjects), connectedness_map,
             RMax(acc, GetOrZero(connectedness_map,
                                 <<member, Head(subjects)>>)))

\* The escalation score that leaves the confidence out of the impact.
calculateEscalationScore_IgnoresConfidence(branch, issue, connectedness_map, params) ==
    LET n == Len(branch.members)
        total_member_impact ==
            RSum([i \in 1..n |->
                     RMul(MemberConnectedness(branch.members[i],
                                              issue.subject_set,
                                              connectedness_map, Zero),
                          issue.severity)])
        local_impact ==
            IF n > 0 THEN RDiv(total_member_impact, R(n, 1)) ELSE Zero
        need_pressure ==
            IF n > 0 THEN RDiv(branch.open_needs_count, R(n, 1)) ELSE Zero
        diversity_penalty == RSub(One, Clamp01(branch.diversity_score))
        weighted_impact == RMul(params.gamma1, local_impact)
        weighted_need == RMul(params.gamma2, need_pressure)
        weighted_diversity == RMul(params.gamma3, diversity_penalty)
        total_score ==
            RAdd(RAdd(weighted_impact, weighted_need), weighted_diversity)
    IN  [branch_id |-> branch.id, issue_id |-> issue.id,
         local_impact |-> weighted_impact,
         need_pressure |-> weighted_need,
         diversity_penalty |-> weighted_diversity,
         total_score |-> total_score,
         triggered |-> RGe(total_score, params.Theta_esc)]

calculateEscalationScore(branch, issue, connectedness_map, params) ==
    LET n == Len(branch.members)
        total_member_impact ==
            RSum([i \in 1..n |->
                     RMul(RMul(MemberConnectedness(branch.members[i],
                                                   issue.subject_set,
                                                   connectedness_map, Zero),
                               issue.severity),
                          issue.confidence)])
        local_impact ==
            IF n > 0 THEN RDiv(total_member_impact, R(n, 1)) ELSE Zero
        need_pressure ==
            IF n > 0 THEN RDiv(branch.open_needs_count, R(n, 1)) ELSE Zero
        diversity_penalty == RSub(One, Clamp01(branch.diversity_score))
        weighted_impact == RMul(params.gamma1, local_impact)
        weighted_need == RMul(params.gamma2, need_pressure)
        weighted_diversity == RMul(params.gamma3, diversity_penalty)
        total_score ==
            RAdd(RAdd(weighted_impact, weighted_need), weighted_diversity)
    IN  [branch_id |-> branch.id, issue_id |-> issue.id,
         local_impact |-> weighted_impact,
         need_pressure |-> weighted_need,
         diversity_penalty |-> weighted_diversity,
         total_score |-> total_score,
         triggered |-> RGe(total_score, params.Theta_esc)]


(***************************************************************************)
(* Calls of calculateEscalationScore                                       *)
(***************************************************************************)

\* workedExample: branch_b0, issue_x and the mock connectedness
ExampleBranch ==
    [id |-> "branch_b0",
     members |-> [i \in 1..10 |-> i - 1],
     avg_credits |-> R(8, 1), diversity_score |-> R(3, 10),
     open_needs_count |-> R(5, 1), current_load |-> R(2, 1)]
ExampleIssue ==
    [id |-> "issue_x", subject_set |-> <<"subject_1", "subject_2">>,
     severity |-> R(7, 10), confidence |-> R(8, 10)]
ExampleConnectedness ==
    [key \in Range(ExampleBranch.members) \X Range(ExampleIssue.subject_set)
        |-> R(4, 10)]

\* Other branches, issues and connectedness maps
SmallBranches ==
    [id : {"b1"}, members : {<<>>, <<"u1", "u2">>},
     avg_credits : {R(8, 1)}, diversity_score : {Zero, R(3, 10), R(3, 2)},
     open_needs_count : {Zero, One, R(5, 1)}, current_load : {R(2, 1)}]
SmallIssues ==
    [id : {"x1"}, subject_set : {<<>>, <<"s1">>, <<"s1", "s2">>},
     severity : {R(7, 10), One}, confidence : {R(1, 2), R(8, 10)}]
SmallConnectedness ==
    UNION {[keys -> {R(2, 5), R(9, 10)}] :
              keys \in SUBSET ({"u1", "u2"} \X {"s1", "s2"})}
EscalationParamSets ==
    {getDefaultEscalationParameters,
     [getDefaultEscalationParameters EXCEPT !.Theta_esc = R(1, 4)]}

InitEscalation ==
    /\ creditCall \in
           [op : {"none"}, branch : SmallBranches, issue : SmallIssues,
            connectedness_map : SmallConnectedness,
            params : EscalationParamSets, value : {"none"}]
           \cup
           [op : {"none"}, branch : {ExampleBranch}, issue : {ExampleIssue},
            connectedness_map : {ExampleConnectedness},
            params : {getDefaultEscalationParameters}, value : {"none"}]
    /\ IdleLedger
    /\ IdleGraph
    /\ IdleSafety
    /\ IdleContract

CalculateEscalationScore ==
    /\ creditCall.op = "none"
    /\ creditCall' =
           [creditCall EXCEPT
               !.op = "calculateEscalationScore",
               !.value = calculateEscalationScore(
                             creditCall.branch, creditCall.issue,
                             creditCall.connectedness_map, creditCall.params)]
    /\ UNCHANGED <<ledgerVars, notCreditVars>>

NextEscalation == CalculateEscalationScore

SpecEscalation == InitEscalation /\ [][NextEscalation]_vars

\* I_B(X): the mean over the members of the largest connectedness the map
\* holds from the member to a subject (0 if none), times severity times
\* confidence; 0 for a branch without members.
LocalImpact(branch, issue, connectedness_map) ==
    LET toSubjects(u) ==
            {GetOrZero(connectedness_map, <<u, x>>) :
                x \in Range(issue.subject_set)} \cup {Zero}
        largest(u) ==
            CHOOSE c \in toSubjects(u) : \A o \in toSubjects(u) : RLe(o, c)
        n == Len(branch.members)
    IN  IF n = 0 THEN Zero
        ELSE RDiv(RSum([i \in 1..n |->
                           RMul(largest(branch.members[i]),
                                RMul(issue.severity, issue.confidence))]),
                  R(n, 1))

ScoreNeighbor(branch, issue, branch_connectedness, params) ==
    LET connectedness ==
            GetOrZero(branch_connectedness, <<branch.id, issue.subject_set>>)
        scarcity_input ==
            RSub(params.theta, RDiv(branch.avg_credits, R(100, 1)))
        scarcity_bonus == sigmoid(scarcity_input)
        load_penalty == Clamp01(RDiv(branch.current_load, R(10, 1)))
        weighted_connectedness == RMul(params.lambda1, connectedness)
        weighted_scarcity == RMul(params.lambda2, scarcity_bonus)
        weighted_load_penalty == RMul(params.lambda3, load_penalty)
    IN  [branch_id |-> branch.id,
         connectedness |-> connectedness,
         scarcity_bonus |-> scarcity_bonus,
         load_penalty |-> load_penalty,
         total_score |-> RSub(RAdd(weighted_connectedness, weighted_scarcity),
                              weighted_load_penalty),
         recommended |-> FALSE]

\* scored_branches.sort((a, b) => b.total_score - a.total_score): stable
RECURSIVE SortByScoreDescending(_)
SortByScoreDescending(scored) ==
    IF scored = <<>> THEN <<>>
    ELSE LET rest == SortByScoreDescending(Tail(scored))
             x == Head(scored)
             higher == SelectSeq(rest,
                           LAMBDA y : RLt(x.total_score, y.total_score))
             others == SelectSeq(rest,
                           LAMBDA y : ~RLt(x.total_score, y.total_score))
         IN  higher \o <<x>> \o others

\* The selection that leaves the scored branches in the order given.
selectNeighborBranches_Unsorted(candidate_branches, issue, branch_connectedness, params) ==
    LET scored_branches ==
            [i \in 1..Len(candidate_branches) |->
                ScoreNeighbor(candidate_branches[i], issue,
                              branch_connectedness, params)]
        top_count == MinInt(params.max_neighbors, Len(scored_branches))
    IN  [i \in 1..Len(scored_branches) |->
            [scored_branches[i] EXCEPT !.recommended = (i <= top_count)]]

selectNeighborBranches(candidate_branches, issue, branch_connectedness, params) ==
    LET scored_branches ==
            SortByScoreDescending(
                [i \in 1..Len(candidate_branches) |->
                    ScoreNeighbor(candidate_branches[i], issue,
                                  branch_connectedness, params)])
        top_count == MinInt(params.max_neighbors, Len(scored_branches))
    IN  [i \in 1..Len(scored_branches) |->
            [scored_branches[i] EXCEPT !.recommended = (i <= top_count)]]

MaxCandidates == 3  \* candidate branches in one call

\* workedExample's two neighbours, a loaded branch the map does not know and
\* a twin of neighbor_2
CandidatePool ==
    {[id |-> "neighbor_1", avg_credits |-> R(12, 1), current_load |-> One],
     [id |-> "neighbor_2", avg_credits |-> R(6, 1),
      current_load |-> R(4, 1)],
     [id |-> "neighbor_3", avg_credits |-> R(50, 1),
      current_load |-> R(20, 1)],
     [id |-> "neighbor_4", avg_credits |-> R(6, 1),
      current_load |-> R(4, 1)]}
ExampleBranchConnectedness ==
    [key \in {"neighbor_1", "neighbor_2", "neighbor_4"}
                 \X {ExampleIssue.subject_set} |->
        IF key[1] = "neighbor_1" THEN R(6, 10) ELSE R(3, 10)]
\* Lists of distinct candidates
CandidateLists ==
    {cs \in UNION {[1..k -> CandidatePool] : k \in 0..MaxCandidates} :
        \A i, j \in 1..Len(cs) : i # j => cs[i] # cs[j]}
MaxNeighbors == {0, 1, 2, getDefaultEscalationParameters.max_neighbors}

InitNeighbors ==
    /\ creditCall \in
           [op : {"none"}, candidate_branches : CandidateLists,
            issue : {ExampleIssue},
            branch_connectedness : {ExampleBranchConnectedness},
            params : {[getDefaultEscalationParameters
                          EXCEPT !.max_neighbors = k] : k \in MaxNeighbors},
            value : {"none"}]
    /\ IdleLedger
    /\ IdleGraph
    /\ IdleSafety
    /\ IdleContract

SelectNeighborBranches ==
    /\ creditCall.op = "none"
    /\ creditCall' =
           [creditCall EXCEPT
               !.op = "selectNeighborBranches",
               !.value = selectNeighborBranches(
                             creditCall.candidate_branches, creditCall.issue,
                             creditCall.branch_connectedness,
                             creditCall.params)]
    /\ UNCHANGED <<ledgerVars, notCreditVars>>

NextNeighbors == SelectNeighborBranches

SpecNeighbors == InitNeighbors /\ [][NextNeighbors]_vars


\* C15: selectNeighborBranches returns one score per candidate, in
\* non-increasing order of total_score, and marks exactly the first
\* min(max_neighbors, number of candidates) as recommended, so no candidate
\* left out scores strictly higher than a recommended one; of the worked
\* example's two candidates neighbor_1 scores strictly higher than
\* neighbor_2 and is recommended whenever max_neighbors >= 1.
C15_NeighborSelection ==
    creditCall.op = "selectNeighborBranches" =>
        LET cs == creditCall.candidate_branches
            v == creditCall.value
            n == Len(cs)
            k == creditCall.params.max_neighbors
            top == IF k <= n THEN k ELSE n
        IN  /\ Len(v) = n
            /\ {v[i].branch_id : i \in 1..Len(v)} = {cs[i].id : i \in 1..n}
            /\ \A i, j \in 1..Len(v) :
                   i < j => ~RLt(v[i].total_score, v[j].total_score)
            /\ \A i \in 1..Len(v) : v[i].recommended <=> i <= top
            /\ \A i, j \in 1..Len(v) :
                   (v[i].recommended /\ ~v[j].recommended) =>
                       ~RLt(v[i].total_score, v[j].total_score)
            /\ \A i, j \in 1..Len(v) :
                   (v[i].branch_id = "neighbor_1"
                    /\ v[j].branch_id = "neighbor_2") =>
                       /\ RLt(v[j].total_score, v[i].total_score)
                       /\ (n = 2 /\ k >= 1) => v[i].recommended

\* Three candidates given with the best one last and one invitation: the
\* best one comes first and is the only one recommended.
C15_Witness ==
    /\ creditCall.op = "selectNeighborBranches"
    /\ Len(creditCall.candidate_branches) = 3
    /\ creditCall.candidate_branches[3].id = "neighbor_1"
    /\ creditCall.params.max_neighbors = 1
    /\ creditCall.value[1].branch_id = "neighbor_1"
    /\ creditCall.value[1].recommended
    /\ ~creditCall.value[2].recommended


(***************************************************************************)
(* Cross-branch contracts: createCrossBranchContract, handleBranchContract *)
(***************************************************************************)

\* signatures: {} and signatures[branch_id] = signature
NoSignatures == [b \in {} |-> ""]
Sign(signatures, branch_id, signature) ==
    [b \in DOMAIN signatures \cup {branch_id} |->
        IF b = branch_id THEN signature ELSE signatures[b]]
\* updated_contract.signatures[branch_id] as a condition
Signed(signatures, branch_id) ==
    branch_id \in DOMAIN signatures /\ signatures[branch_id] # ""

\* createCrossBranchContract (the identifier and the timestamps, which come
\* from Date.now() and Math.random(), are left out)
createCrossBranchContract(requesting_branch, helping_branches, issue, tasks, timebox_hours, credit_rewards) ==
    [contract_id |-> "c1",
     requesting_branch |-> requesting_branch,
     helping_branches |-> helping_branches,
     issue_id |-> issue.id,
     scope |-> issue.subject_set,
     tasks |-> tasks,
     timebox_hours |-> timebox_hours,
     credit_rewards |-> credit_rewards,
     status |-> "proposed",
     signatures |-> NoSignatures]

NoContract == [contract_id |-> "null"]
NoEvidence == [defined |-> FALSE]
Evidence(items) == [defined |-> TRUE, items |-> items]

\* The data layer behind handleBranchContract is not written; it is
\* modelled as holding one contract by value and counting the calls of
\* distributeContractCredits.
getContract(store, contract_id) ==
    IF store.contract.contract_id = contract_id THEN store.contract
    ELSE NoContract
storeContract(store, contract) == [store EXCEPT !.contract = contract]
distributeContractCredits(store, contract) ==
    [store EXCEPT !.distributed = @ + 1]
\* Every branch the data layer knows has the one member "rep".
KnownBranches == {"B0", "B1", "B2", "B3"}
getBranch(branch_id) ==
    IF branch_id \in KnownBranches
    THEN [id |-> branch_id, members |-> <<"rep">>]
    ELSE NoBranch

\* What one pass through the switch of handleBranchContract yields: the
\* response, the updated contract, and whether distributeContractCredits
\* and storeContract are reached
ContractFailure(contract, error) ==
    [result |-> [success |-> FALSE, error |-> error],
     stored |-> FALSE, distributed |-> FALSE, contract |-> contract]
ContractSuccess(updated, distributed) ==
    [result |-> [success |-> TRUE, contract |-> updated],
     stored |-> TRUE, distributed |-> distributed, contract |-> updated]

\* The approval that activates the contract once any helping branch signed.
ApproveContract_AnySignature(contract, request) ==
    LET signatures == Sign(contract.signatures, request.branch_id,
                           request.signature)
        all_signed ==
            \E i \in 1..Len(contract.helping_branches) :
                Signed(signatures, contract.helping_branches[i])
    IN  ContractSuccess(
            [contract EXCEPT
                !.signatures = signatures,
                !.status = IF all_signed THEN "active" ELSE @],
            FALSE)

\* case 'approve'
ApproveContract(contract, request) ==
    LET signatures == Sign(contract.signatures, request.branch_id,
                           request.signature)
        all_signed ==
            \A i \in 1..Len(contract.helping_branches) :
                Signed(signatures, contract.helping_branches[i])
    IN  ContractSuccess(
            [contract EXCEPT
                !.signatures = signatures,
                !.status = IF all_signed THEN "active" ELSE @],
            FALSE)

\* The completion that accepts an empty evidence list.
CompleteContract_EmptyEvidence(contract, request) ==
    IF request.completion_evidence.defined
    THEN ContractSuccess([contract EXCEPT !.status = "completed"], TRUE)
    ELSE ContractFailure(contract, "Completion evidence required")

\* case 'complete'
CompleteContract(contract, request) ==
    IF request.completion_evidence.defined
       /\ Len(request.completion_evidence.items) > 0
    THEN ContractSuccess([contract EXCEPT !.status = "completed"], TRUE)
    ELSE ContractFailure(contract, "Completion evidence required")

\* switch (request.action)
ContractSwitch(contract, request) ==
    CASE request.action = "approve" -> ApproveContract(contract, request)
      [] request.action = "reject" ->
            ContractSuccess([contract EXCEPT !.status = "failed"], FALSE)
      [] request.action = "complete" -> CompleteContract(contract, request)
      [] request.action = "dispute" ->
            ContractSuccess([contract EXCEPT !.status = "disputed"], FALSE)
      [] OTHER -> ContractFailure(contract, "Invalid contract action")

\* handleBranchContract on the contract and the branch the data layer
\* returned
handleBranchContract(request, contract, branch) ==
    IF ~validateRequestSignature(request)
    THEN ContractFailure(contract, "Invalid request signature")
    ELSE IF contract = NoContract
    THEN ContractFailure(contract, "Contract not found")
    ELSE IF branch = NoBranch \/ ~Includes(branch.members, request.requester)
    THEN ContractFailure(contract,
                         "Requester not authorized for this branch")
    ELSE ContractSwitch(contract, request)


(***************************************************************************)
(* Contract requests handled one after the other                           *)
(***************************************************************************)

MaxHelping == 2         \* helping branches of the contract
MaxDistributions == 2   \* calls of distributeContractCredits

HelpingBranches == <<"B1", "B2", "B3">>
HelpingLists == {SubSeq(HelpingBranches, 1, k) : k \in 0..MaxHelping}

\* Requests of authorized members about the stored contract, and three that
\* fail before the switch or in its default case
ContractRequests ==
    [contract_id : {"c1"}, requester : {"rep"},
     branch_id : {"B0"} \cup Range(SubSeq(HelpingBranches, 1, MaxHelping)),
     action : {"approve", "reject", "dispute"},
     signature : {"sig"}, completion_evidence : {NoEvidence}]
    \cup
    [contract_id : {"c1"}, requester : {"rep"},
     branch_id : {"B0"} \cup Range(SubSeq(HelpingBranches, 1, MaxHelping)),
     action : {"complete"}, signature : {"sig"},
     completion_evidence : {NoEvidence, Evidence(<<>>), Evidence(<<"e1">>)}]
    \cup
    {[contract_id |-> "c2", requester |-> "rep", branch_id |-> "B1",
      action |-> "approve", signature |-> "sig",
      completion_evidence |-> NoEvidence],
     [contract_id |-> "c1", requester |-> "outsider", branch_id |-> "B1",
      action |-> "approve", signature |-> "sig",
      completion_evidence |-> NoEvidence],
     [contract_id |-> "c1", requester |-> "rep", branch_id |-> "B1",
      action |-> "renew", signature |-> "sig",
      completion_evidence |-> NoEvidence]}

\* handleEscalation has stored the proposal createCrossBranchContract
\* returned.
InitContract ==
    /\ \E helping_branches \in HelpingLists :
           contractStore =
               [contract |-> createCrossBranchContract(
                                 "B0", helping_branches, ExampleIssue,
                                 <<"mediate">>, 24,
                                 getDefaultCreditParameters.c_xbranch),
                distributed |-> 0]
    /\ handlers = <<>>
    /\ response = [op |-> "none"]
    /\ creditCall = [op |-> "none"]
    /\ ledger = [human |-> "none"]
    /\ storage = [earn_events |-> "none"]
    /\ IdleGraph
    /\ IdleSafety

\* One request handled from its load of the contract to its store
HandleBranchContract(request) ==
    LET out == handleBranchContract(
                   request, getContract(contractStore, request.contract_id),
                   getBranch(request.branch_id))
        paid == IF out.distributed
                THEN distributeContractCredits(contractStore, out.contract)
                ELSE contractStore
    IN  /\ out.distributed => contractStore.distributed < MaxDistributions
        /\ contractStore' =
               IF out.stored THEN storeContract(paid, out.contract) ELSE paid
        /\ response' = [op |-> "handleBranchContract", request |-> request,
                        result |-> out.result]
        /\ UNCHANGED <<handlers, notContractVars>>

NextContract == \E request \in ContractRequests : HandleBranchContract(request)

SpecContract == InitContract /\ [][NextContract]_vars

AllSigned(contract) ==
    \A b \in Range(contract.helping_branches) :
        b \in DOMAIN contract.signatures

\* C16: the contract is created proposed and unsigned; its status becomes
\* active only in a step after which every helping branch has a signature
\* recorded; a successful approve that leaves a helping branch unsigned
\* leaves the status as it was, and one after which all have signed makes
\* it active.
C16_ActiveOnlyWhenAllSigned ==
    /\ contractStore.contract.status = "proposed"
    /\ DOMAIN contractStore.contract.signatures = {}
    /\ [][LET before == contractStore.contract
              after == contractStore'.contract
              approved == /\ response'.request.action = "approve"
                          /\ response'.result.success
          IN  /\ (after.status = "active" /\ before.status # "active")
                     => AllSigned(after)
              /\ (approved /\ ~AllSigned(after))
                     => after.status = before.status
              /\ (approved /\ AllSigned(after)) => after.status = "active"
       ]_vars

\* A contract with two helping branches, signed by both and active.
C16_Witness ==
    /\ Len(contractStore.contract.helping_branches) = 2
    /\ DOMAIN contractStore.contract.signatures = {"B1", "B2"}
    /\ contractStore.contract.status = "active"
    /\ response.request.action = "approve"

\* C17: once the status is completed or failed, no contract request
\* changes it.
C17_CompletedAndFailedAreTerminal ==
    [][contractStore.contract.status \in {"completed", "failed"}
           => contractStore'.contract.status = contractStore.contract.status
      ]_vars

\* C18: a complete request without evidence, or with an empty evidence
\* list, fails, leaves the stored contract as it was and distributes no
\* credits; and the status becomes completed only by a complete request
\* with non-empty evidence.
C18_CompletionNeedsEvidence ==
    [][LET request == response'.request
           evidenced == /\ request.completion_evidence.defined
                        /\ request.completion_evidence.items # <<>>
       IN  /\ (request.action = "complete" /\ ~evidenced) =>
                  /\ ~response'.result.success
                  /\ contractStore' = contractStore
           /\ (contractStore'.contract.status = "completed"
               /\ contractStore.contract.status # "completed") =>
                  (request.action = "complete" /\ evidenced)
      ]_vars

\* An active contract whose completion with an empty evidence list was just
\* refused.
C18_Witness ==
    /\ contractStore.contract.status = "active"
    /\ response.request.action = "complete"
    /\ response.request.completion_evidence = Evidence(<<>>)
    /\ response.result.error = "Completion evidence required"


(***************************************************************************)
(* Approve requests in flight together                                     *)
(***************************************************************************)

MaxHandlers == 3        \* approve requests received

ApproveRequests ==
    [contract_id : {"c1"}, requester : {"rep"},
     branch_id : {"B0"} \cup Range(SubSeq(HelpingBranches, 1, MaxHelping)),
     action : {"approve"}, signature : {"sig"},
     completion_evidence : {NoEvidence}]

InitApprove == InitContract

\* A call of handleBranchContract starts.
ReceiveApprove(request) ==
    /\ Len(handlers) < MaxHandlers
    /\ handlers' = Append(handlers,
                          [pc |-> "load", request |-> request,
                           contract |-> NoContract,
                           result |-> [success |-> FALSE,
                                       error |-> "pending"]])
    /\ UNCHANGED <<contractStore, response, notContractVars>>

\* await getContract(request.contract_id)
LoadContract(i) ==
    /\ handlers[i].pc = "load"
    /\ handlers' =
           [handlers EXCEPT
               ![i].contract = getContract(contractStore,
                                           handlers[i].request.contract_id),
               ![i].pc = "store"]
    /\ UNCHANGED <<contractStore, response, notContractVars>>

\* From the answer of getBranch to the return: the switch works on the
\* contract this call loaded, and storeContract writes its copy.
StoreContract(i) ==
    LET h == handlers[i]
        out == handleBranchContract(h.request, h.contract,
                                    getBranch(h.request.branch_id))
    IN  /\ h.pc = "store"
        /\ contractStore' = IF out.stored
                            THEN storeContract(contractStore, out.contract)
                            ELSE contractStore
        /\ handlers' = [handlers EXCEPT ![i].pc = "done",
                                        ![i].result = out.result]
        /\ response' = [op |-> "handleBranchContract",
                        request |-> h.request, result |-> out.result]
        /\ UNCHANGED notContractVars

NextApprove ==
    \/ \E request \in ApproveRequests : ReceiveApprove(request)
    \/ \E i \in DOMAIN handlers : LoadContract(i)
    \/ \E i \in DOMAIN handlers : StoreContract(i)

SpecApprove == InitApprove /\ [][NextApprove]_vars

ApproveReturned(branch_id) ==
    \E i \in DOMAIN handlers :
        /\ handlers[i].pc = "done"
        /\ handlers[i].request.branch_id = branch_id
        /\ handlers[i].result.success

readCreditBalance(store, her_cid) ==
    LET opening == getCreditBalance(her_cid)
        credits == [i \in 1..Len(store.credits) |->
                       IF store.credits[i].helper = her_cid
                       THEN store.credits[i].award ELSE Zero]
        debits == [i \in 1..Len(store.debits) |->
                      IF store.debits[i].requester = her_cid
                      THEN store.debits[i].amount ELSE Zero]
    IN  [opening EXCEPT
            !.balance = RAdd(RAdd(@, RSum(credits)), RSum(debits))]

\* Requests of the one participant: a sound and an unwitnessed earn
\* request, and spend requests their branch approves or does not vote on
ConcurrentEarnRequests ==
    {r \in EarnRequests :
        /\ r.subject_set = <<"h2">>
        /\ r.evidence_confidence = One
        /\ r.diversity_factor = One}
ConcurrentSpendRequests ==
    {[requester |-> Helper, spend_type |-> "local", amount |-> a,
      branch_votes |-> [i \in 1..k |->
                           [voter |-> BranchMembers[i + 1], vote |-> One]]] :
        a \in {R(20, 1), R(30, 1)}, k \in {0, 3}}
RequesterBranch == [id |-> "B1", members |-> BranchMembers]

InitConcurrent ==
    /\ handlers = <<>>
    /\ storage = [earn_events |-> <<>>, credits |-> <<>>,
                  spend_events |-> <<>>, debits |-> <<>>]
    /\ response = [op |-> "none"]
    /\ contractStore = [contract_id |-> "none"]
    /\ ledger = [human |-> "none"]
    /\ IdleAward
    /\ IdleGraph
    /\ IdleSafety

\* A call of handleEarnCredit starts.
ReceiveEarn(request) ==
    /\ Len(handlers) < MaxHandlers
    /\ handlers' = Append(handlers,
                          [op |-> "handleEarnCredit", pc |-> "credit",
                           request |-> request,
                           requester_balance |-> getCreditBalance(Helper)])
    /\ UNCHANGED <<storage, response, contractStore, ledger, creditCall,
                   graphVars, safetyVars>>

\* A call of handleSpendCredit starts.
ReceiveSpend(request) ==
    /\ Len(handlers) < MaxHandlers
    /\ handlers' = Append(handlers,
                          [op |-> "handleSpendCredit", pc |-> "check",
                           request |-> request,
                           requester_balance |-> getCreditBalance(Helper)])
    /\ UNCHANGED <<storage, response, contractStore, ledger, creditCall,
                   graphVars, safetyVars>>

\* handleEarnCredit up to its return: the award is handed to
\* updateHelperCreditBalance.
CreditEarn(i) ==
    LET h == handlers[i]
        out == handleEarnCredit(h.request, storage)
    IN  /\ h.pc = "credit"
        /\ storage' = out.store
        /\ handlers' = [handlers EXCEPT ![i].pc = "done"]
        /\ response' = [op |-> h.op, request |-> h.request,
                        result |-> out.result]
        /\ UNCHANGED <<contractStore, ledger, creditCall, graphVars,
                       safetyVars>>

\* await getCreditBalance(request.requester)
CheckBalance(i) ==
    /\ handlers[i].pc = "check"
    /\ handlers' =
           [handlers EXCEPT
               ![i].requester_balance =
                   readCreditBalance(storage, handlers[i].request.requester),
               ![i].pc = "debit"]
    /\ UNCHANGED <<storage, response, contractStore, ledger, creditCall,
                   graphVars, safetyVars>>

\* handleSpendCredit from the comparison of the balance it read up to its
\* return: the amount is handed to updateRequesterCreditBalance.
DebitSpend(i) ==
    LET h == handlers[i]
        out == handleSpendCredit(h.request, RequesterBranch, R(3, 1),
                                 h.requester_balance, storage)
    IN  /\ h.pc = "debit"
        /\ storage' = out.store
        /\ handlers' = [handlers EXCEPT ![i].pc = "done"]
        /\ response' = [op |-> h.op, request |-> h.request,
                        result |-> out.result]
        /\ UNCHANGED <<contractStore, ledger, creditCall, graphVars,
                       safetyVars>>

NextConcurrent ==
    \/ \E request \in ConcurrentEarnRequests : ReceiveEarn(request)
    \/ \E request \in ConcurrentSpendRequests : ReceiveSpend(request)
    \/ \E i \in DOMAIN handlers : CreditEarn(i)
    \/ \E i \in DOMAIN handlers : CheckBalance(i)
    \/ \E i \in DOMAIN handlers : DebitSpend(i)

SpecConcurrent == InitConcurrent /\ [][NextConcurrent]_vars

DefaultConfidenceThreshold == R(6, 10)

RECURSIVE SumInt(_)
SumInt(seq) == IF seq = <<>> THEN 0 ELSE Head(seq) + SumInt(Tail(seq))

\* The union result that keeps the low-confidence pairwise results.
calculateUnionConnectedness_NoFilter(sourceHER, targetSet, graph, opts) ==
    LET pairwiseResults ==
            [i \in 1..Len(targetSet) |->
                calculatePairwiseConnectedness(sourceHER, targetSet[i],
                                               graph, opts)]
        n == Len(pairwiseResults)
        finite == {pairwiseResults[i].shortestPath :
                       i \in {j \in 1..n : pairwiseResults[j].pathCount > 0}}
        totalConfidence ==
            RSum([i \in 1..n |-> pairwiseResults[i].confidence])
    IN  IF n = 0
        THEN [score |-> Zero, pathCount |-> 0, shortestPath |-> "Infinity",
              diversityScore |-> Zero, confidence |-> Zero]
        ELSE [score |-> RMaxOf([i \in 1..n |-> pairwiseResults[i].score]),
              pathCount |-> SumInt([i \in 1..n |->
                                       pairwiseResults[i].pathCount]),
              shortestPath |->
                  IF finite = {} THEN "Infinity"
                  ELSE CHOOSE l \in finite : \A m \in finite : l <= m,
              diversityScore |->
                  IF RLt(Zero, totalConfidence)
                  THEN RDiv(RSum([i \in 1..n |->
                                     RMul(pairwiseResults[i].diversityScore,
                                          pairwiseResults[i].confidence)]),
                            totalConfidence)
                  ELSE Zero,
              confidence |-> RDiv(totalConfidence, R(n, 1))]

\* calculateUnionConnectedness; Math.min over shortest paths is taken over
\* the finite ones, Infinity being the shortestPath of a result without
\* paths.
calculateUnionConnectedness(sourceHER, targetSet, graph, opts) ==
    LET pairwiseResults ==
            [i \in 1..Len(targetSet) |->
                calculatePairwiseConnectedness(sourceHER, targetSet[i],
                                               graph, opts)]
        validResults ==
            SelectSeq(pairwiseResults,
                      LAMBDA r : RGe(r.confidence, opts.confidenceThreshold))
        n == Len(validResults)
        finite == {validResults[i].shortestPath :
                       i \in {j \in 1..n : validResults[j].pathCount > 0}}
        totalConfidence == RSum([i \in 1..n |-> validResults[i].confidence])
    IN  IF n = 0
        THEN [score |-> Zero, pathCount |-> 0, shortestPath |-> "Infinity",
              diversityScore |-> Zero, confidence |-> Zero]
        ELSE [score |-> RMaxOf([i \in 1..n |-> validResults[i].score]),
              pathCount |-> SumInt([i \in 1..n |->
                                       validResults[i].pathCount]),
              shortestPath |->
                  IF finite = {} THEN "Infinity"
                  ELSE CHOOSE l \in finite : \A m \in finite : l <= m,
              diversityScore |->
                  IF RLt(Zero, totalConfidence)
                  THEN RDiv(RSum([i \in 1..n |->
                                     RMul(validResults[i].diversityScore,
                                          validResults[i].confidence)]),
                            totalConfidence)
                  ELSE Zero,
              confidence |-> RDiv(totalConfidence, R(n, 1))]

\* Sponsor graphs buildSponsorGraph yields over HERs: symmetric, with a
\* self-edge at most at "c"
BuiltGraphs ==
    {g \in [HERs -> SUBSET HERs] :
        /\ \A h, k \in HERs : (k \in g[h]) <=> (h \in g[k])
        /\ \A h \in HERs \ {"c"} : h \notin g[h]}

TargetSets ==
    {<<>>, <<"b">>, <<"a">>, <<"b", "c">>, <<"d", "d">>, <<"b", "c", "d">>}
UnionDepths == {1, MaxDepthOpt, DefaultMaxDepth}
ConfidenceThresholds == {DefaultConfidenceThreshold, R(9, 10)}

InitConnectedness ==
    /\ sponsorGraph \in BuiltGraphs
    /\ query = NoQuery
    /\ result = NoResult
    /\ IdleSafety
    /\ IdleCredit
    /\ IdleContract

\* calculateUnionConnectedness(source, targetSet, sponsorGraph, options)
AskUnion(source, targetSet, maxDepth, decayFactor, confidenceThreshold) ==
    /\ query' = [source |-> source, targetSet |-> targetSet,
                 maxDepth |-> maxDepth, decayFactor |-> decayFactor,
                 confidenceThreshold |-> confidenceThreshold]
    /\ result' = calculateUnionConnectedness(
                     source, targetSet, sponsorGraph,
                     [maxDepth |-> maxDepth, decayFactor |-> decayFactor,
                      confidenceThreshold |-> confidenceThreshold])
    /\ UNCHANGED <<sponsorGraph, notGraphVars>>

\* One call on each graph: the functions are pure.
NextConnectedness ==
    \/ \E a \in QuerySources, b \in HERs, md \in UnionDepths,
          df \in DecayFactors : query = NoQuery /\ Ask(a, b, md, df)
    \/ \E a \in QuerySources, ts \in TargetSets, md \in UnionDepths,
          df \in DecayFactors, ct \in ConfidenceThresholds :
           query = NoQuery /\ AskUnion(a, ts, md, df, ct)

SpecConnectedness == InitConnectedness /\ [][NextConnectedness]_vars

AskedPair == Asked /\ "target" \in DOMAIN query
AskedUnion == Asked /\ "targetSet" \in DOMAIN query
InUnit(x) == RLe(Zero, x) /\ RLe(x, One)

\* C21: every result of calculatePairwiseConnectedness and of
\* calculateUnionConnectedness has score, diversityScore and confidence in
\* [0,1] and pathCount >= 0.
C21_ResultWithinRanges ==
    Asked =>
        /\ InUnit(result.score)
        /\ InUnit(result.diversityScore)
        /\ InUnit(result.confidence)
        /\ result.pathCount >= 0

\* A union result over several targets reached by overlapping paths: its
\* diversity and its confidence lie strictly inside the range.
C21_Witness ==
    /\ AskedUnion
    /\ Len(query.targetSet) = 3
    /\ result.pathCount >= 4
    /\ RLt(Zero, result.diversityScore) /\ RLt(result.diversityScore, One)
    /\ RLt(Zero, result.confidence) /\ RLt(result.confidence, One)


\* C24: the union result is computed from the pairwise results of the
\* targets whose confidence is at least confidenceThreshold: score 0 and
\* confidence 0 if there is none, otherwise the largest of their scores,
\* the sum of their path counts, the least of their shortest paths and the
\* plain average of their confidences.
C24_UnionOverConfidentResults ==
    AskedUnion =>
        LET pr == [i \in 1..Len(query.targetSet) |->
                      calculatePairwiseConnectedness(
                          query.source, query.targetSet[i], sponsorGraph,
                          [maxDepth |-> query.maxDepth,
                           decayFactor |-> query.decayFactor])]
            kept == {i \in 1..Len(query.targetSet) :
                        ~RLt(pr[i].confidence, query.confidenceThreshold)}
            ks == SetToSeq(kept)
            reached == {i \in kept : pr[i].pathCount > 0}
        IN  IF kept = {}
            THEN result.score = Zero /\ result.confidence = Zero
            ELSE /\ \A i \in kept : RLe(pr[i].score, result.score)
                 /\ \E i \in kept : pr[i].score = result.score
                 /\ result.pathCount =
                        SumInt([j \in 1..Len(ks) |-> pr[ks[j]].pathCount])
                 /\ IF reached = {} THEN result.shortestPath = "Infinity"
                    ELSE /\ \A i \in reached :
                                result.shortestPath <= pr[i].shortestPath
                         /\ \E i \in reached :
                                result.shortestPath = pr[i].shortestPath
                 /\ RMul(result.confidence, R(Cardinality(kept), 1)) =
                        RSum([j \in 1..Len(ks) |-> pr[ks[j]].confidence])

\* A union over three targets of which one is discarded for its confidence
\* and two, with different scores, remain.
C24_Witness ==
    /\ AskedUnion
    /\ Len(query.targetSet) = 3
    /\ LET pr == [i \in 1..3 |->
                     calculatePairwiseConnectedness(
                         query.source, query.targetSet[i], sponsorGraph,
                         [maxDepth |-> query.maxDepth,
                          decayFactor |-> query.decayFactor])]
       IN  /\ \E i \in 1..3 :
                  RLt(pr[i].confidence, query.confidenceThreshold)
           /\ \E i, j \in 1..3 :
                  /\ ~RLt(pr[i].confidence, query.confidenceThreshold)
                  /\ ~RLt(pr[j].confidence, query.confidenceThreshold)
                  /\ RLt(pr[i].score, pr[j].score)
    /\ result.score = One

\* The simple paths of the graph from source to target with at most
\* maxDepth edges
SimplePaths(graph, source, target, maxDepth) ==
    {p \in UNION {[1..k -> HERs] :
                     k \in 2..MinInt(maxDepth + 1, Cardinality(HERs))} :
        /\ p[1] = source
        /\ p[Len(p)] = target
        /\ \A i, j \in 1..Len(p) : i # j => p[i] # p[j]
        /\ \A i \in 1..(Len(p) - 1) : p[i + 1] \in graph[p[i]]}

\* C25: for distinct, non-adjacent source and target the path search
\* returns exactly the simple paths from source to target with at most
\* maxDepth edges, each once, and pathCount is their number.
C25_SearchFindsAllSimplePaths ==
    (AskedPair /\ ~Direct /\ query.source # query.target) =>
        LET simple == SimplePaths(sponsorGraph, query.source, query.target,
                                  query.maxDepth)
        IN  /\ findWeightedPaths(query.source, query.target, sponsorGraph,
                                 query.maxDepth) = simple
            /\ result.pathCount = Cardinality(simple)

\* A graph with cycles in which the two HERs between source and target
\* each lie on three of the four paths found.
C25_Witness ==
    /\ AskedPair
    /\ ~Direct
    /\ query.source # query.target
    /\ query.maxDepth = DefaultMaxDepth
    /\ result.pathCount = 4
    /\ \A h \in HERs \ {query.source, query.target} :
           /\ h \in sponsorGraph[query.source]
           /\ query.target \in sponsorGraph[h]


(***************************************************************************)
(* One kept safety result as time passes                                   *)
(***************************************************************************)

MaxDecayTicks == 5      \* default half-lives the clock runs

\* The default configuration with the decay switched off
NO_DECAY_OPTIONS == [DEFAULT_OPTIONS EXCEPT !.enableDecay = FALSE]
DecayConfigs == SafetyConfigs \cup {NO_DECAY_OPTIONS}

\* Default half-lives after which the largest impact, 1, is below the
\* default threshold of LOW
HalfLivesToNone ==
    CHOOSE n \in 0..MaxDecayTicks :
        /\ RLt(RPow(R(1, 2), n), DEFAULT_OPTIONS.tierThresholds.low)
        /\ \A m \in 0..(n - 1) :
               ~RLt(RPow(R(1, 2), m), DEFAULT_OPTIONS.tierThresholds.low)

InitDecay ==
    /\ safetyOpts \in DecayConfigs
    /\ clock = 0
    /\ issues = <<>>
    /\ returned = NoCall
    /\ IdleGraph
    /\ IdleCredit
    /\ IdleContract

\* Time passes: one default half-life.
Elapse ==
    /\ clock < MaxDecayTicks * DecayHalfLifeDefault
    /\ clock' = clock + DecayHalfLifeDefault
    /\ UNCHANGED <<safetyOpts, issues, returned, notSafetyVars>>

\* One result is reported, early enough for the clock to run long enough
\* after it, and evaluated on demand as time passes.
NextDecay ==
    \/ \E c \in ConnectednessLevels, s \in SeverityLevels,
          k \in ConfidenceLevels :
           /\ issues = <<>>
           /\ clock <= (MaxDecayTicks - HalfLivesToNone) * DecayHalfLifeDefault
           /\ Report(c, s, k)
    \/ EvaluateDecay(1)
    \/ Elapse

\* Time keeps passing; the kept result is evaluated whenever a caller asks.
SpecDecay == InitDecay /\ [][NextDecay]_vars /\ WF_vars(Elapse)

Kept(i) == i \in DOMAIN issues /\ RLt(Zero, issues[i].original.impactScore)
Timed(i) == Kept(i) /\ issues[i].original.decayTimer.set
\* An evaluation of the kept result at the present time returns tier NONE
\* and no frictions.
Lifted(i) ==
    /\ i \in DOMAIN issues
    /\ updateDecayedImpact(issues[i].current, clock).tier = NONE
    /\ updateDecayedImpact(issues[i].current, clock).frictions = {}

calculateEpochConservation(all_earn_events, all_spend_events, params) ==
    LET total_earned ==
            RSum([i \in 1..Len(all_earn_events) |->
                     calculateCreditAward(all_earn_events[i], params)])
        total_spent ==
            RSum([i \in 1..Len(all_spend_events) |->
                     all_spend_events[i].amount])
    IN  [total_earned |-> total_earned,
         total_spent |-> total_spent,
         within_issuance_cap |-> RLe(total_earned, params.I_max_per_epoch),
         within_spend_cap |-> RLe(total_spent, params.S_max_per_epoch),
         unused_issuance |->
             RMax(Zero, RSub(params.I_max_per_epoch, total_earned))]

MaxEpochEvents == 2     \* earn events, and spend events, of one epoch

\* The caps a caller sets: the defaults (0, 0), caps one award and one small
\* spend reach exactly, and caps nothing here exceeds.
CapParamSets ==
    {getDefaultCreditParameters,
     [getDefaultCreditParameters EXCEPT !.I_max_per_epoch = R(32, 10),
                                        !.S_max_per_epoch = R(2, 1)],
     [getDefaultCreditParameters EXCEPT !.I_max_per_epoch = R(5, 1),
                                        !.S_max_per_epoch = R(100, 1)]}

InitConservation ==
    /\ creditCall \in [op : {"none"},
                       all_earn_events : SeqUpTo(LedgerEarnEvents,
                                                 MaxEpochEvents),
                       all_spend_events : SeqUpTo(SpendEvents,
                                                  MaxEpochEvents),
                       params : CapParamSets,
                       value : {"none"}]
    /\ IdleLedger
    /\ IdleGraph
    /\ IdleSafety
    /\ IdleContract

CalculateEpochConservation ==
    /\ creditCall.op = "none"
    /\ creditCall' =
           [creditCall EXCEPT
               !.op = "calculateEpochConservation",
               !.value = calculateEpochConservation(
                             creditCall.all_earn_events,
                             creditCall.all_spend_events,
                             creditCall.params)]
    /\ UNCHANGED <<ledgerVars, notCreditVars>>

NextConservation == CalculateEpochConservation

SpecConservation == InitConservation /\ [][NextConservation]_vars

\* The credits updateCreditBalance adds for the events: the awards of those
\* that pass validateEarnEvent
CreditedFor(events, params) ==
    RSum([i \in 1..Len(events) |->
             IF validateEarnEvent(events[i], params).valid
             THEN calculateCreditAward(events[i], params)
             ELSE Zero])

\* C22: calculateEpochConservation reports total_earned as the sum of the
\* awards of the earn events that are credited (an event failing validation
\* counts nothing), total_spent as the sum of the spend amounts, each cap
\* flag true exactly when the total is at most the cap, and unused_issuance
\* as max(0, I_max_per_epoch - total_earned).
C22_ConservationReportsAwarded ==
    creditCall.op = "calculateEpochConservation" =>
        LET v == creditCall.value
            params == creditCall.params
        IN  /\ v.total_earned
                   = CreditedFor(creditCall.all_earn_events, params)
            /\ v.total_spent
                   = RSum([i \in 1..Len(creditCall.all_spend_events) |->
                              creditCall.all_spend_events[i].amount])
            /\ v.within_issuance_cap
                   <=> RLe(v.total_earned, params.I_max_per_epoch)
            /\ v.within_spend_cap
                   <=> RLe(v.total_spent, params.S_max_per_epoch)
            /\ v.unused_issuance
                   = RMax(Zero, RSub(params.I_max_per_epoch, v.total_earned))


(***************************************************************************)
(* buildSponsorGraph on declaration inputs (connectedness.ts)              *)
(***************************************************************************)

\* graph.get(key) || []
GraphGet(graph, key) == IF key \in DOMAIN graph THEN graph[key] ELSE <<>>
\* graph.set(key, edges)
GraphSet(graph, key, edges) ==
    [k \in DOMAIN graph \cup {key} |-> IF k = key THEN edges ELSE graph[k]]

\* One direction of a sponsorship: `to` is pushed onto the list kept under
\* `from` unless the list includes it.
PushEdge(graph, from, to) ==
    IF Includes(GraphGet(graph, from), to) THEN graph
    ELSE GraphSet(graph, from, Append(GraphGet(graph, from), to))

\* The inner loop over data.sponsors
RECURSIVE AddSponsors(_, _, _)
AddSponsors(graph, herCID, sponsors) ==
    IF sponsors = <<>> THEN graph
    ELSE AddSponsors(PushEdge(PushEdge(graph, Head(sponsors), herCID),
                              herCID, Head(sponsors)),
                     herCID, Tail(sponsors))

\* herData is the sequence of the map's entries, in insertion order.
RECURSIVE BuildFrom(_, _)
BuildFrom(graph, herData) ==
    IF herData = <<>> THEN graph
    ELSE BuildFrom(AddSponsors(graph, Head(herData).herCID,
                               Head(herData).sponsors),
                   Tail(herData))

EmptyGraph == [k \in {} |-> <<>>]
buildSponsorGraph(herData) == BuildFrom(EmptyGraph, herData)

MaxDeclarers == 2       \* entries of herData

\* The sponsors one participant declares: none, one, the same twice, two,
\* itself among them or not
SponsorLists ==
    {<<>>, <<"a">>, <<"b">>, <<"b", "b">>, <<"b", "c">>, <<"c", "a">>}
Declarers == {"a", "b", "c"}
\* A Map holds each key once.
DeclarationInputs ==
    {d \in SeqUpTo([herCID : Declarers, sponsors : SponsorLists],
                   MaxDeclarers) :
        \A i, j \in 1..Len(d) : d[i].herCID = d[j].herCID => i = j}

InitBuild ==
    /\ sponsorGraph = [h \in HERs |-> {}]
    /\ query \in [herData : DeclarationInputs]
    /\ result = NoResult
    /\ IdleSafety
    /\ IdleCredit
    /\ IdleContract

\* buildSponsorGraph(herData); the graph the queries read is its result.
BuildSponsorGraph ==
    /\ result = NoResult
    /\ result' = [graph |-> buildSponsorGraph(query.herData)]
    /\ sponsorGraph' = [h \in HERs |-> Range(GraphGet(result'.graph, h))]
    /\ UNCHANGED <<query, notGraphVars>>

NextBuild == BuildSponsorGraph

SpecBuild == InitBuild /\ [][NextBuild]_vars

\* C26: the graph buildSponsorGraph returns is symmetric, lists each
\* neighbour at most once, lists no participant under itself, and is empty
\* for empty input.
C26_BuiltGraphWellFormed ==
    "graph" \in DOMAIN result =>
        LET graph == result.graph
        IN  /\ \A a \in DOMAIN graph : \A b \in Range(graph[a]) :
                   b \in DOMAIN graph /\ a \in Range(graph[b])
            /\ \A a \in DOMAIN graph : \A i, j \in 1..Len(graph[a]) :
                   graph[a][i] = graph[a][j] => i = j
            /\ \A a \in DOMAIN graph : a \notin Range(graph[a])
            /\ (query.herData = <<>> => DOMAIN graph = {})


(***************************************************************************)
(* Inputs outside [0, 1]                                                   *)
(***************************************************************************)

\* Issues and connectedness maps with values below 0 and above 1
UnboundedIssues ==
    [id : {"x1"}, subject_set : {<<"s1">>},
     severity : {R(7, 10), R(3, 2)},
     confidence : {R(-1, 2), R(8, 10), R(3, 2)}]
UnboundedConnectedness ==
    [{"u1", "u2"} \X {"s1"} -> {R(-1, 2), R(2, 5), R(3, 2)}]

\* The same inputs with each value clamped to [0, 1]
ClampedEvent(event) ==
    [event EXCEPT !.evidence_confidence = Clamp01(@),
                  !.proximity_score = Clamp01(@)]
ClampedIssue(issue) ==
    [issue EXCEPT !.severity = Clamp01(@), !.confidence = Clamp01(@)]
ClampedMap(connectedness_map) ==
    [key \in DOMAIN connectedness_map |-> Clamp01(connectedness_map[key])]

InitClamp ==
    /\ creditCall \in
           [op : {"none"}, fn : {"calculateSafetyTier"},
            connectedness : ConnectednessLevels, severity : SeverityLevels,
            confidence : ConfidenceLevels, opts : SafetyConfigs,
            value : {"none"}, clamped : {"none"}]
           \cup
           [op : {"none"}, fn : {"calculateCreditAward"},
            event : EarnEvents, params : {getDefaultCreditParameters},
            value : {"none"}, clamped : {"none"}]
           \cup
           [op : {"none"}, fn : {"calculateEscalationScore"},
            branch : SmallBranches, issue : UnboundedIssues,
            connectedness_map : UnboundedConnectedness,
            params : {getDefaultEscalationParameters},
            value : {"none"}, clamped : {"none"}]
    /\ IdleLedger
    /\ IdleGraph
    /\ IdleSafety
    /\ IdleContract

\* Each function is called on the input as given and on the clamped input.
ClampSafetyTier ==
    /\ creditCall.op = "none"
    /\ creditCall.fn = "calculateSafetyTier"
    /\ creditCall' =
           [creditCall EXCEPT
               !.op = "called",
               !.value = calculateSafetyTier(
                             creditCall.connectedness, creditCall.severity,
                             creditCall.confidence, creditCall.opts, 0),
               !.clamped = calculateSafetyTier(
                               Clamp01(creditCall.connectedness),
                               Clamp01(creditCall.severity),
                               Clamp01(creditCall.confidence),
                               creditCall.opts, 0)]
    /\ UNCHANGED <<ledgerVars, notCreditVars>>

ClampCreditAward ==
    /\ creditCall.op = "none"
    /\ creditCall.fn = "calculateCreditAward"
    /\ creditCall' =
           [creditCall EXCEPT
               !.op = "called",
               !.value = calculateCreditAward(creditCall.event,
                                              creditCall.params),
               !.clamped = calculateCreditAward(
                               ClampedEvent(creditCall.event),
                               creditCall.params)]
    /\ UNCHANGED <<ledgerVars, notCreditVars>>

ClampEscalationScore ==
    /\ creditCall.op = "none"
    /\ creditCall.fn = "calculateEscalationScore"
    /\ creditCall' =
           [creditCall EXCEPT
               !.op = "called",
               !.value = calculateEscalationScore(
                             creditCall.branch, creditCall.issue,
                             creditCall.connectedness_map,
                             creditCall.params),
               !.clamped = calculateEscalationScore(
                               creditCall.branch,
                               ClampedIssue(creditCall.issue),
                               ClampedMap(creditCall.connectedness_map),
                               creditCall.params)]
    /\ UNCHANGED <<ledgerVars, notCreditVars>>

NextClamp ==
    \/ ClampSafetyTier
    \/ ClampCreditAward
    \/ ClampEscalationScore

SpecClamp == InitClamp /\ [][NextClamp]_vars

\* C27: calculateSafetyTier, calculateCreditAward and
\* calculateEscalationScore return for an input with severity, confidence,
\* connectedness or proximity outside [0, 1] exactly what they return for
\* that input clamped to [0, 1].
C27_OutOfRangeIsClamped ==
    creditCall.op = "called" => creditCall.value = creditCall.clamped


(***************************************************************************)
(* Spends and balances                                                     *)
(***************************************************************************)

\* C28: an updateCreditBalance call that is passed spend events and no earn
\* events returns a balance that is at most the decayed balance.
C28_SpendNeverRaisesBalance ==
    [][(/\ ledger'.earn_history = ledger.earn_history
        /\ Len(ledger'.spend_history) > Len(ledger.spend_history))
       => RLe(ledger'.balance,
              applyCreditDecay(ledger, ledger'.last_updated_epoch,
                               EpochDurationHours,
                               getDefaultCreditParameters))]_vars


(***************************************************************************)
(* Completion and the distribution of contract credits                     *)
(***************************************************************************)

\* C29: no contract request takes a proposed, failed or disputed contract
\* to completed or distributes credits for it; completed is reached only
\* from active.
C29_CompletedOnlyAfterActive ==
    [][contractStore.contract.status \in {"proposed", "failed", "disputed"}
           => /\ contractStore'.contract.status # "completed"
              /\ contractStore'.distributed = contractStore.distributed
      ]_vars

\* C30: over any sequence of contract requests distributeContractCredits is
\* called at most once for the contract.
C30_CreditsDistributedAtMostOnce == contractStore.distributed <= 1

=============================================================================
